---- MODULE Spec2Model ----
(***************************************************************************)
(* hyprknot: the record data model (internal/knot/types.go) and the        *)
(* transactional record store (internal/knot/client.go) driving the knotc  *)
(* control plane.  Go strings are sequences of one-character strings, so   *)
(* that suffix tests, whitespace splitting and decimal conversion are      *)
(* computed the way the code computes them.                                *)
(***************************************************************************)
EXTENDS Integers, Sequences, FiniteSets, TLC

(***************************************************************************)
(* Package strings / strconv                                               *)
(***************************************************************************)
HasSuffix(s, suf) ==
  /\ Len(s) >= Len(suf)
  /\ SubSeq(s, Len(s) - Len(suf) + 1, Len(s)) = suf

HasPrefix(s, pre) ==
  /\ Len(s) >= Len(pre)
  /\ SubSeq(s, 1, Len(pre)) = pre

TrimSuffix(s, suf) ==
  IF HasSuffix(s, suf) THEN SubSeq(s, 1, Len(s) - Len(suf)) ELSE s

IsSpace(c) == c \in {" ", "\t"}

RECURSIVE FieldsFrom(_, _, _, _)
FieldsFrom(s, i, cur, acc) ==
  IF i > Len(s)
  THEN IF cur = <<>> THEN acc ELSE Append(acc, cur)
  ELSE IF IsSpace(s[i])
       THEN FieldsFrom(s, i + 1, <<>>, IF cur = <<>> THEN acc ELSE Append(acc, cur))
       ELSE FieldsFrom(s, i + 1, Append(cur, s[i]), acc)

Fields(s) == FieldsFrom(s, 1, <<>>, <<>>)

RECURSIVE Join(_, _)
Join(parts, sep) ==
  IF Len(parts) = 0 THEN <<>>
  ELSE IF Len(parts) = 1 THEN parts[1]
  ELSE parts[1] \o sep \o Join(Tail(parts), sep)

RECURSIVE TrimLeftChar(_, _)
TrimLeftChar(s, c) ==
  IF Len(s) > 0 /\ s[1] = c THEN TrimLeftChar(Tail(s), c) ELSE s

RECURSIVE TrimRightChar(_, _)
TrimRightChar(s, c) ==
  IF Len(s) > 0 /\ s[Len(s)] = c
  THEN TrimRightChar(SubSeq(s, 1, Len(s) - 1), c)
  ELSE s

\* strings.Trim(s, cutset) for a one-character cutset
Trim(s, c) == TrimRightChar(TrimLeftChar(s, c), c)

DigitChars == <<"0", "1", "2", "3", "4", "5", "6", "7", "8", "9">>

IsDigit(c) == \E i \in 1..Len(DigitChars) : DigitChars[i] = c

DigitVal(c) == (CHOOSE i \in 1..Len(DigitChars) : DigitChars[i] = c) - 1

RECURSIVE Pow2(_)
Pow2(k) == IF k = 0 THEN 1 ELSE 2 * Pow2(k - 1)

\* An unsigned integer of up to 32 bits is the pair <<high, low>> of its 16-bit
\* halves, so that values up to 2^32 - 1 and the overflow past them are exact.
Limb == Pow2(16)

U(n) == <<n \div Limb, n % Limb>>

UGt(a, b) == a[1] > b[1] \/ (a[1] = b[1] /\ a[2] > b[2])

\* the largest value of bitSize bits
UMax(bitSize) ==
  IF bitSize > 16 THEN <<Pow2(bitSize - 16) - 1, Limb - 1>> ELSE <<0, Pow2(bitSize) - 1>>

\* acc * 10 + d, exact for acc < 2^32
UShift(acc, d) ==
  LET lo == acc[2] * Len(DigitChars) + d
  IN  <<acc[1] * Len(DigitChars) + lo \div Limb, lo % Limb>>

\* quotient and remainder of u by 10
UDiv10(u) ==
  LET mid == (u[1] % Len(DigitChars)) * Limb + u[2]
  IN  [q |-> <<u[1] \div Len(DigitChars), mid \div Len(DigitChars)>>,
       r |-> mid % Len(DigitChars)]

\* strconv.FormatUint(uint64(u), 10)
RECURSIVE FormatUint(_)
FormatUint(u) ==
  IF u[1] = 0 /\ u[2] < Len(DigitChars)
  THEN <<DigitChars[u[2] + 1]>>
  ELSE FormatUint(UDiv10(u).q) \o <<DigitChars[UDiv10(u).r + 1]>>

\* strconv.ParseUint(s, 10, bitSize): the value accumulated digit by digit,
\* an error on an empty string, a non-digit or a value beyond 2^bitSize - 1
RECURSIVE ParseUintFrom(_, _, _, _)
ParseUintFrom(s, i, acc, max) ==
  IF i > Len(s) THEN [ok |-> TRUE, val |-> acc]
  ELSE IF ~IsDigit(s[i]) THEN [ok |-> FALSE, val |-> U(0)]
  ELSE IF UGt(UShift(acc, DigitVal(s[i])), max) THEN [ok |-> FALSE, val |-> max]
  ELSE ParseUintFrom(s, i + 1, UShift(acc, DigitVal(s[i])), max)

\* a conversion that stops at the largest value instead of failing
ParseUint_Saturating(s, bitSize) ==
  IF Len(s) = 0 THEN [ok |-> FALSE, val |-> U(0)]
  ELSE [ParseUintFrom(s, 1, U(0), UMax(bitSize)) EXCEPT
          !.ok = \A i \in 1..Len(s) : IsDigit(s[i])]

ParseUint(s, bitSize) ==
  IF Len(s) = 0 THEN [ok |-> FALSE, val |-> U(0)]
  ELSE ParseUintFrom(s, 1, U(0), UMax(bitSize))

LowerChars == <<"a", "b", "c", "d", "e", "f", "g", "h", "i", "j", "k", "l", "m",
                "n", "o", "p", "q", "r", "s", "t", "u", "v", "w", "x", "y", "z">>
UpperChars == <<"A", "B", "C", "D", "E", "F", "G", "H", "I", "J", "K", "L", "M",
                "N", "O", "P", "Q", "R", "S", "T", "U", "V", "W", "X", "Y", "Z">>

ToUpperChar(c) ==
  IF \E i \in 1..Len(LowerChars) : LowerChars[i] = c
  THEN UpperChars[CHOOSE i \in 1..Len(LowerChars) : LowerChars[i] = c]
  ELSE c

ToUpper(s) == [i \in 1..Len(s) |-> ToUpperChar(s[i])]

(***************************************************************************)
(* Package net: ParseIP and To4, as far as validateData uses them          *)
(***************************************************************************)
RECURSIVE SplitFrom(_, _, _, _, _)
SplitFrom(s, c, i, cur, acc) ==
  IF i > Len(s) THEN Append(acc, cur)
  ELSE IF s[i] = c THEN SplitFrom(s, c, i + 1, <<>>, Append(acc, cur))
  ELSE SplitFrom(s, c, i + 1, Append(cur, s[i]), acc)

\* strings.Split(s, c) for a one-character separator: empty parts are kept
Split(s, c) == SplitFrom(s, c, 1, <<>>, <<>>)

Contains(s, c) == \E i \in 1..Len(s) : s[i] = c

\* one dotted-decimal field: 1 to 3 digits, no leading zero, at most 255
IsOctet(f) ==
  /\ Len(f) \in 1..3
  /\ \A i \in 1..Len(f) : IsDigit(f[i])
  /\ (Len(f) > 1 => f[1] # "0")
  /\ ParseUint(f, 8).ok

FourOctets(p) == Len(p) = 4 /\ \A i \in 1..4 : IsOctet(p[i])

IsIPv4(s) == FourOctets(Split(s, "."))

HexChars == <<"0", "1", "2", "3", "4", "5", "6", "7", "8", "9",
              "a", "b", "c", "d", "e", "f">>

HexLower(c) ==
  IF \E i \in 1..Len(UpperChars) : UpperChars[i] = c
  THEN LowerChars[CHOOSE i \in 1..Len(UpperChars) : UpperChars[i] = c]
  ELSE c

IsHexDigit(c) == \E i \in 1..Len(HexChars) : HexChars[i] = HexLower(c)

HexDigitVal(c) == (CHOOSE i \in 1..Len(HexChars) : HexChars[i] = HexLower(c)) - 1

RECURSIVE HexVal(_)
HexVal(f) ==
  IF Len(f) = 0 THEN 0
  ELSE HexVal(SubSeq(f, 1, Len(f) - 1)) * Len(HexChars) + HexDigitVal(f[Len(f)])

IsHexGroup(f) == Len(f) \in 1..4 /\ \A i \in 1..Len(f) : IsHexDigit(f[i])

\* the 16-bit groups one side of an IPv6 literal stands for; a dotted-decimal
\* tail (allowed only as the last part) stands for two groups
GroupsOk(parts, tailAllowed) ==
  \A i \in 1..Len(parts) :
     \/ IsHexGroup(parts[i])
     \/ tailAllowed /\ i = Len(parts) /\ IsIPv4(parts[i])

\* the two 16-bit groups of a dotted-decimal tail, given its four fields
TailGroups(o) ==
  << ParseUint(o[1], 8).val[2] * Pow2(8) + ParseUint(o[2], 8).val[2],
     ParseUint(o[3], 8).val[2] * Pow2(8) + ParseUint(o[4], 8).val[2] >>

RECURSIVE GroupsOf(_)
GroupsOf(parts) ==
  IF Len(parts) = 0 THEN <<>>
  ELSE IF IsHexGroup(parts[1]) THEN <<HexVal(parts[1])>> \o GroupsOf(Tail(parts))
  ELSE TailGroups(Split(parts[1], "."))

\* positions k with s[k] = s[k+1] = ":"
Ellipses(s) == {k \in 1..(Len(s) - 1) : s[k] = ":" /\ s[k + 1] = ":"}

SideParts(side) == IF Len(side) = 0 THEN <<>> ELSE Split(side, ":")

Zeros(n) == [i \in 1..n |-> 0]

\* a literal without "::" must spell all eight groups
FullGroups(g) == IF Len(g) = 8 THEN g ELSE <<>>

\* "::" stands for the groups missing between the two sides, at least one
PadGroups(gl, gr) ==
  IF Len(gl) + Len(gr) < 8 THEN gl \o Zeros(8 - Len(gl) - Len(gr)) \o gr ELSE <<>>

EllipsisGroups(l, r) ==
  IF GroupsOk(l, FALSE) /\ GroupsOk(r, TRUE) THEN PadGroups(GroupsOf(l), GroupsOf(r))
  ELSE <<>>

PlainGroups(p) == IF GroupsOk(p, TRUE) THEN FullGroups(GroupsOf(p)) ELSE <<>>

SplitAtEllipsis(s, k) ==
  EllipsisGroups(SideParts(SubSeq(s, 1, k - 1)), SideParts(SubSeq(s, k + 2, Len(s))))

\* the eight groups of an IPv6 literal, or <<>> when s is not one
IPv6Groups(s) ==
  IF ~Contains(s, ":") THEN <<>>
  ELSE IF Ellipses(s) = {} THEN PlainGroups(Split(s, ":"))
  ELSE IF Cardinality(Ellipses(s)) > 1 THEN <<>>
  ELSE SplitAtEllipsis(s, CHOOSE e \in Ellipses(s) : TRUE)

\* whether the groups are those of a v4-mapped address (::ffff:a.b.c.d)
V4Mapped(g) == (\A i \in 1..5 : g[i] = 0) /\ g[6] = Pow2(16) - 1

GroupsClass(g) ==
  IF g = <<>> THEN "nil" ELSE IF V4Mapped(g) THEN "v4" ELSE "v6"

\* net.ParseIP(s) and To4 of its result: "nil" when ParseIP returns nil, "v4"
\* when To4() is not nil (dotted decimal, or a v4-mapped IPv6 literal), "v6"
\* for any other IPv6 address
ParseIP(s) == IF IsIPv4(s) THEN "v4" ELSE GroupsClass(IPv6Groups(s))

(***************************************************************************)
(* internal/knot/types.go: the record data model                           *)
(***************************************************************************)
RecordTypeA     == <<"A">>
RecordTypeAAAA  == <<"A", "A", "A", "A">>
RecordTypePTR   == <<"P", "T", "R">>
RecordTypeCNAME == <<"C", "N", "A", "M", "E">>
RecordTypeMX    == <<"M", "X">>
RecordTypeTXT   == <<"T", "X", "T">>
RecordTypeNS    == <<"N", "S">>

ValidRecordTypes ==
  <<RecordTypeA, RecordTypeAAAA, RecordTypePTR, RecordTypeCNAME,
    RecordTypeMX, RecordTypeTXT, RecordTypeNS>>

IsValidRecordType(recordType) ==
  \E i \in 1..Len(ValidRecordTypes) : ToUpper(recordType) = ValidRecordTypes[i]

\* A *uint16 is <<>> for nil and <<v>> for a pointer to v.
NoPriority == <<>>

DNSRecord(name, type, ttl, data, priority) ==
  [Name |-> name, Type |-> type, TTL |-> ttl, Data |-> data, Priority |-> priority]

\* a default that leaves a zero TTL zero
DefaultTTL_Zero == U(0)

DefaultTTL == U(300)

Quote == "\""

\* a dot appended whether or not the data ends with one
EnsureDot_Always(r) == [ok |-> TRUE, rec |-> [r EXCEPT !.Data = r.Data \o <<".">>]]

\* "Ensure FQDN ends with dot"
EnsureDot(r) ==
  IF ~HasSuffix(r.Data, <<".">>)
  THEN [ok |-> TRUE, rec |-> [r EXCEPT !.Data = r.Data \o <<".">>]]
  ELSE [ok |-> TRUE, rec |-> r]

\* quotes put around the data whether or not it has them
EnsureQuoted_Always(r) ==
  [ok |-> TRUE, rec |-> [r EXCEPT !.Data = <<Quote>> \o r.Data \o <<Quote>>]]

\* "Ensure TXT data is properly quoted"
EnsureQuoted(r) ==
  IF ~HasPrefix(r.Data, <<Quote>>) \/ ~HasSuffix(r.Data, <<Quote>>)
  THEN [ok |-> TRUE,
        rec |-> [r EXCEPT !.Data = <<Quote>> \o Trim(r.Data, Quote) \o <<Quote>>]]
  ELSE [ok |-> TRUE, rec |-> r]

\* validateData: the record as the switch leaves it, and whether it returned nil
validateData(r) ==
  CASE r.Type = RecordTypeA ->
         [ok |-> ParseIP(r.Data) = "v4", rec |-> r]
    [] r.Type = RecordTypeAAAA ->
         [ok |-> ParseIP(r.Data) = "v6", rec |-> r]
    [] r.Type \in {RecordTypePTR, RecordTypeCNAME, RecordTypeNS} ->
         IF r.Data = <<>> THEN [ok |-> FALSE, rec |-> r]
         ELSE EnsureDot(r)
    [] r.Type = RecordTypeMX ->
         IF r.Priority = NoPriority THEN [ok |-> FALSE, rec |-> r]
         ELSE EnsureDot(r)
    [] r.Type = RecordTypeTXT ->
         IF r.Data = <<>> THEN [ok |-> FALSE, rec |-> r]
         ELSE EnsureQuoted(r)
    [] OTHER -> [ok |-> TRUE, rec |-> r]

\* DNSRecord.Validate: rec is the receiver after the call (the TTL default is
\* applied before the data is looked at)
Validate(r) ==
  IF r.Name = <<>> THEN [ok |-> FALSE, rec |-> r]
  ELSE IF ~IsValidRecordType(r.Type) THEN [ok |-> FALSE, rec |-> r]
  ELSE validateData(IF r.TTL = U(0) THEN [r EXCEPT !.TTL = DefaultTTL] ELSE r)

\* DNSRecord.ToKnotFormat
ToKnotFormat(r) ==
  Join(<<r.Name, FormatUint(r.TTL), r.Type>>
         \o (IF r.Type = RecordTypeMX /\ r.Priority # NoPriority
             THEN <<FormatUint(r.Priority[1])>> ELSE <<>>)
         \o <<r.Data>>,
       <<" ">>)

NoRecord == DNSRecord(<<>>, <<>>, U(0), <<>>, NoPriority)

ParseFailed == [ok |-> FALSE, rec |-> NoRecord]

\* the MX case of ParseKnotRecord, given the parsed TTL and priority
ParseMX(parts, ttl, priority) ==
  IF ~priority.ok THEN ParseFailed
  ELSE [ok |-> TRUE,
        rec |-> DNSRecord(parts[1], parts[3], ttl.val, parts[5], <<priority.val>>)]

\* ParseKnotRecord after the TTL has been parsed: the switch on the type
ParseTyped(parts, ttl) ==
  IF ~ttl.ok THEN ParseFailed
  ELSE IF parts[3] = RecordTypeMX
  THEN IF Len(parts) < 5 THEN ParseFailed
       ELSE ParseMX(parts, ttl, ParseUint(parts[4], 16))
  ELSE [ok |-> TRUE,
        rec |-> DNSRecord(parts[1], parts[3], ttl.val,
                          Join(SubSeq(parts, 4, Len(parts)), <<" ">>), NoPriority)]

ParseParts(parts) ==
  IF Len(parts) < 4 THEN ParseFailed ELSE ParseTyped(parts, ParseUint(parts[2], 32))

\* ParseKnotRecord: ok is "err == nil"
ParseKnotRecord(line) == ParseParts(Fields(line))

(***************************************************************************)
(* internal/knot/client.go: zone access guard                              *)
(***************************************************************************)
\* the comparison without normalization: names are compared as they are given
normalizeZoneName_AsGiven(zone) == zone

normalizeZoneName(zone) ==
  IF ~HasSuffix(zone, <<".">>) THEN zone \o <<".">> ELSE zone

\* a suffix match that does not ask for the "." before the allowed zone
IsZoneAllowed_BareSuffix(allowedZones, zone) ==
  IF Len(allowedZones) = 0 THEN TRUE
  ELSE \E i \in 1..Len(allowedZones) :
         HasSuffix(normalizeZoneName(zone), normalizeZoneName(allowedZones[i]))

IsZoneAllowed(allowedZones, zone) ==
  IF Len(allowedZones) = 0 THEN TRUE
  ELSE \E i \in 1..Len(allowedZones) :
         LET normalizedAllowed == normalizeZoneName(allowedZones[i])
         IN  \/ normalizeZoneName(zone) = normalizedAllowed
             \/ HasSuffix(normalizeZoneName(zone), <<".">> \o normalizedAllowed)

(***************************************************************************)
(* The knotc control plane that executeKnotc drives.  A command is the     *)
(* subcommand and its arguments; the server keeps, per configured zone,    *)
(* the committed records in zone-read order and at most one open           *)
(* transaction holding a working copy.                                     *)
(***************************************************************************)
ZoneE  == <<"e", ".">>
ZoneNE == <<"n", "e", ".">>
ZoneBE == <<"b", ".", "e", ".">>

\* the zones configured on the server
KnotZones == {ZoneE, ZoneNE, ZoneBE}

Cmd(cmd, args) == [cmd |-> cmd, args |-> args]

CmdZone(c) == normalizeZoneName(c.args[1])

\* an owner relative to the zone is completed with the zone name
AbsName(owner, z) ==
  IF HasSuffix(owner, <<".">>) THEN owner ELSE owner \o <<".">> \o z

InZone(name, z) == name = z \/ HasSuffix(name, <<".">> \o z)

\* the record a zone-set command names: <zone> <owner> <ttl> <type> [<priority>] <data>
SetRecordOf(a, name, z) ==
  IF a[4] = RecordTypeMX
  THEN IF Len(a) # 6 \/ ~ParseUint(a[5], 16).ok
       THEN [ok |-> FALSE, rec |-> NoRecord]
       ELSE [ok |-> InZone(name, z),
             rec |-> DNSRecord(name, a[4], ParseUint(a[3], 32).val, a[6],
                               <<ParseUint(a[5], 16).val>>)]
  ELSE [ok |-> Len(a) = 5 /\ InZone(name, z),
        rec |-> DNSRecord(name, a[4], ParseUint(a[3], 32).val, a[5], NoPriority)]

SetRecordArgs(a, z) ==
  IF Len(a) < 5 \/ a[2] = <<>> \/ ~ParseUint(a[3], 32).ok
  THEN [ok |-> FALSE, rec |-> NoRecord]
  ELSE SetRecordOf(a, AbsName(a[2], z), z)

SetRecord(c) == SetRecordArgs(c.args, CmdZone(c))

\* the line zone-read prints for a record: <name> <ttl> <type> [<priority>] <data>
KnotLine(r) ==
  Join(<<r.Name, FormatUint(r.TTL), r.Type>>
         \o (IF r.Priority # NoPriority THEN <<FormatUint(r.Priority[1])>> ELSE <<>>)
         \o <<r.Data>>,
       <<" ">>)

\* zone-unset <zone> <match>: "<owner> <type>" names every record of that owner
\* and type, a full line names the record with exactly that value
MatchesFields(r, f, z) ==
  IF Len(f) = 2 THEN r.Name = AbsName(f[1], z) /\ r.Type = f[2]
  ELSE IF Len(f) >= 4 THEN Fields(KnotLine(r)) = <<AbsName(f[1], z)>> \o Tail(f)
  ELSE FALSE

Matches(r, match, z) == MatchesFields(r, Fields(match), z)

RECURSIVE Without(_, _, _)
Without(recs, match, z) ==
  IF Len(recs) = 0 THEN <<>>
  ELSE IF Matches(recs[1], match, z) THEN Without(Tail(recs), match, z)
  ELSE <<recs[1]>> \o Without(Tail(recs), match, z)

HasRecord(recs, r) == \E i \in 1..Len(recs) : recs[i] = r

NoTxn == <<>>

(***************************************************************************)
(* Bounds and inputs                                                       *)
(***************************************************************************)
\* calls made in one behaviour
MaxCalls == 2

Procs == {1}

\* the request handlers that can run at the same time; Procs is the one that
\* makes the calls of Spec
Clients == {1, 2}

\* Client.allowedZones
AllowedZones == << <<"e">> >>

VARIABLES
  zoneData,   \* server: zone -> committed records, in zone-read order
  txn,        \* server: zone -> NoTxn or <<working copy>> of the open transaction
  pc,         \* client: where each call stands
  call,       \* client: the operation and arguments of the current (or last) call
  loc,        \* client: the locals of the call (record, existingRecord, ...)
  cmds,       \* the knotc commands the current (or last) call has executed
  ret,        \* what the last call returned
  prev,       \* the zone and record of the call before the current one, when
              \* that call was a CreateRecord that returned nil
  pre,        \* zoneData when the current call started
  ncalls,     \* calls started so far
  arg,        \* the arguments of the last application of a pure function
  res,        \* and its result
  clients,    \* rate limiter: client IP -> times of the recorded requests
  clock,      \* time.Now(), in ticks
  inflight,   \* rate limiter: the locals and answer of each request handler
  served      \* requests the rate limiter has been entered with

limiterVars == <<clients, clock, inflight, served>>

storeVars == <<zoneData, txn, pc, call, loc, cmds, ret, prev, pre, ncalls, limiterVars>>

vars == <<zoneData, txn, pc, call, loc, cmds, ret, prev, pre, ncalls, arg, res, limiterVars>>

Nil == <<>>

KnotcFailed == "knotc command failed"

(***************************************************************************)
(* executeKnotc and the server's side of a command                         *)
(***************************************************************************)
TxnOpen(z) == z \in KnotZones /\ txn[z] # NoTxn

\* whether the server can carry the command out
CanSucceed(c) ==
  CASE c.cmd \in {"conf-read", "status"} -> TRUE
    [] c.cmd \in {"zone-read", "zone-reload"} -> CmdZone(c) \in KnotZones
    [] c.cmd = "zone-begin" -> CmdZone(c) \in KnotZones /\ txn[CmdZone(c)] = NoTxn
    [] c.cmd = "zone-set" -> TxnOpen(CmdZone(c)) /\ SetRecord(c).ok
    [] c.cmd = "zone-unset" ->
         /\ TxnOpen(CmdZone(c))
         /\ Len(c.args) = 2
         /\ \E i \in 1..Len(txn[CmdZone(c)][1]) :
               Matches(txn[CmdZone(c)][1][i], c.args[2], CmdZone(c))
    [] c.cmd \in {"zone-commit", "zone-abort"} -> TxnOpen(CmdZone(c))
    [] OTHER -> FALSE

AddRecord(recs, r) == IF HasRecord(recs, r) THEN recs ELSE Append(recs, r)

TxnAfterIn(c, z) ==
  CASE c.cmd = "zone-begin" -> [txn EXCEPT ![z] = <<zoneData[z]>>]
    [] c.cmd = "zone-set" -> [txn EXCEPT ![z] = <<AddRecord(@[1], SetRecord(c).rec)>>]
    [] c.cmd = "zone-unset" -> [txn EXCEPT ![z] = <<Without(@[1], c.args[2], z)>>]
    [] c.cmd \in {"zone-commit", "zone-abort"} -> [txn EXCEPT ![z] = NoTxn]
    [] OTHER -> txn

TxnAfter(c) == TxnAfterIn(c, CmdZone(c))

DataAfter(c) ==
  IF c.cmd = "zone-commit"
  THEN [zoneData EXCEPT ![CmdZone(c)] = txn[CmdZone(c)][1]]
  ELSE zoneData

\* the lines a successful command prints
Output(c) ==
  CASE c.cmd = "zone-read" ->
         [i \in 1..Len(zoneData[CmdZone(c)]) |-> KnotLine(zoneData[CmdZone(c)][i])]
    [] OTHER -> <<>>

\* executeKnotc(args...): the command runs and exits zero (ok) or not; a command
\* the server cannot carry out exits non-zero, and any command may fail.  log is
\* the commands the call has executed before this one.
executeKnotc(p, log, c, ok) ==
  /\ ok => CanSucceed(c)
  /\ zoneData' = IF ok THEN DataAfter(c) ELSE zoneData
  /\ txn' = IF ok THEN TxnAfter(c) ELSE txn
  /\ cmds' = [cmds EXCEPT ![p] = Append(log, [cmd |-> c.cmd, args |-> c.args, ok |-> ok])]

(***************************************************************************)
(* internal/knot/client.go: helpers of the record operations               *)
(***************************************************************************)
RECURSIVE TrimLeftSpace(_)
TrimLeftSpace(s) == IF Len(s) > 0 /\ IsSpace(s[1]) THEN TrimLeftSpace(Tail(s)) ELSE s

RECURSIVE TrimRightSpace(_)
TrimRightSpace(s) ==
  IF Len(s) > 0 /\ IsSpace(s[Len(s)])
  THEN TrimRightSpace(SubSeq(s, 1, Len(s) - 1))
  ELSE s

TrimSpace(s) == TrimRightSpace(TrimLeftSpace(s))

\* a scanner loop that ends at the first line that does not parse
KeepParsed_StopAtError(parsed, rest) == IF parsed.ok THEN <<parsed.rec>> \o rest ELSE <<>>

\* the scanner loop of GetRecords: blank and comment lines and lines that do not
\* parse are skipped
KeepParsed(parsed, rest) == IF parsed.ok THEN <<parsed.rec>> \o rest ELSE rest

ScanLine(line, rest) ==
  IF line = <<>> \/ HasPrefix(line, <<";">>) THEN rest
  ELSE KeepParsed(ParseKnotRecord(line), rest)

RECURSIVE ParseRecords(_)
ParseRecords(lines) ==
  IF Len(lines) = 0 THEN <<>>
  ELSE ScanLine(TrimSpace(lines[1]), ParseRecords(Tail(lines)))

\* what GetRecords returns for an allowed zone, given how its zone-read ended
GetRecordsResult(ok, out) ==
  IF ~ok THEN [err |-> <<"failed to read zone", KnotcFailed>>, records |-> <<>>]
  ELSE [err |-> Nil, records |-> ParseRecords(out)]

\* the record of that name and type that comes last, <<>> if none
LastMatch(records, name, recordType) ==
  IF \A i \in 1..Len(records) : ~(records[i].Name = name /\ records[i].Type = recordType)
  THEN <<>>
  ELSE <<records[CHOOSE i \in 1..Len(records) :
                   /\ records[i].Name = name /\ records[i].Type = recordType
                   /\ \A j \in (i + 1)..Len(records) :
                        ~(records[j].Name = name /\ records[j].Type = recordType)]>>

\* the loop of GetRecord: the first record of that name and type, <<>> if none
RECURSIVE FirstMatch(_, _, _)
FirstMatch(records, name, recordType) ==
  IF Len(records) = 0 THEN <<>>
  ELSE IF records[1].Name = name /\ records[1].Type = recordType THEN <<records[1]>>
  ELSE FirstMatch(Tail(records), name, recordType)

FoundOrNot(match) ==
  IF match = <<>> THEN [err |-> <<"record not found">>, rec |-> <<>>]
  ELSE [err |-> Nil, rec |-> match]

GetRecordFrom(r, name, recordType) ==
  IF r.err # Nil THEN [err |-> r.err, rec |-> <<>>]
  ELSE FoundOrNot(FirstMatch(r.records, name, recordType))

\* what GetRecord returns for an allowed zone: rec is <<>> for a nil pointer
GetRecordResult(name, recordType, ok, out) ==
  GetRecordFrom(GetRecordsResult(ok, out), name, recordType)

\* the test without the comparison of the TTL
SameValues_IgnoreTTL(existingRecord, record) ==
  /\ existingRecord.Data = record.Data
  /\ \/ existingRecord.Priority = NoPriority /\ record.Priority = NoPriority
     \/ /\ existingRecord.Priority # NoPriority
        /\ record.Priority # NoPriority
        /\ existingRecord.Priority[1] = record.Priority[1]

\* CreateRecord's test that the existing record has the same values
SameValues(existingRecord, record) ==
  /\ existingRecord.TTL = record.TTL
  /\ existingRecord.Data = record.Data
  /\ \/ existingRecord.Priority = NoPriority /\ record.Priority = NoPriority
     \/ /\ existingRecord.Priority # NoPriority
        /\ record.Priority # NoPriority
        /\ existingRecord.Priority[1] = record.Priority[1]

\* the owner CreateRecord and UpdateRecord pass to zone-set
RelativeName(recordName, normalizedZone) ==
  IF HasSuffix(recordName, <<".">> \o normalizedZone)
  THEN TrimSuffix(recordName, <<".">> \o normalizedZone)
  ELSE IF HasSuffix(recordName, normalizedZone)
  THEN TrimSuffix(TrimSuffix(recordName, normalizedZone), <<".">>)
  ELSE recordName

\* the arguments of zone-set
ZoneSetArgs(normalizedZone, record) ==
  <<normalizedZone, RelativeName(record.Name, normalizedZone),
    FormatUint(record.TTL), record.Type>>
    \o (IF record.Type = RecordTypeMX /\ record.Priority # NoPriority
        THEN <<FormatUint(record.Priority[1])>> ELSE <<>>)
    \o <<record.Data>>

\* UpdateRecordRequest: each field is <<>> (nil) or <<value>>
NoUpdates == [TTL |-> <<>>, Data |-> <<>>, Priority |-> <<>>]

\* updates applied with a TTL that is not given taken as zero
ApplyUpdates_ZeroAbsentTTL(existingRecord, updates) ==
  [existingRecord EXCEPT
     !.TTL = IF updates.TTL # <<>> THEN updates.TTL[1] ELSE U(0),
     !.Data = IF updates.Data # <<>> THEN updates.Data[1] ELSE @,
     !.Priority = IF updates.Priority # <<>> THEN updates.Priority ELSE @]

\* UpdateRecord's "Apply updates"
ApplyUpdates(existingRecord, updates) ==
  [existingRecord EXCEPT
     !.TTL = IF updates.TTL # <<>> THEN updates.TTL[1] ELSE @,
     !.Data = IF updates.Data # <<>> THEN updates.Data[1] ELSE @,
     !.Priority = IF updates.Priority # <<>> THEN updates.Priority ELSE @]

\* what each operation does when a command of its transaction fails: "abort"
\* (zone-abort, then return the error) or "return" (return the error at once)
CreateRecordOnError_NoAbort(step) == "return"

CreateRecordOnError(step) == IF step = "set" THEN "abort" ELSE "return"

UpdateRecordOnError_AbortOnBegin(step) ==
  IF step \in {"begin", "unset", "set"} THEN "abort" ELSE "return"

UpdateRecordOnError(step) == IF step \in {"unset", "set"} THEN "abort" ELSE "return"

\* DeleteRecord returning the zone-unset error without a zone-abort
DeleteRecordOnError_NoAbort(step) == "return"

DeleteRecordOnError(step) == IF step = "unset" THEN "abort" ELSE "return"

\* every failed command followed by a zone-abort, the zone-begin included
OnError_AbortAlways(op, step) == IF step = "commit" THEN "return" ELSE "abort"

OnError(op, step) ==
  CASE op = "CreateRecord" -> CreateRecordOnError(step)
    [] op = "UpdateRecord" -> UpdateRecordOnError(step)
    [] op = "DeleteRecord" -> DeleteRecordOnError(step)

\* the error each operation returns for a failed command of its transaction
StepError(op, step) ==
  CASE step = "begin" -> <<"failed to begin transaction for zone", KnotcFailed>>
    [] step = "commit" -> <<"failed to commit transaction for zone", KnotcFailed>>
    [] step = "set" /\ op = "CreateRecord" -> <<"failed to add record to zone", KnotcFailed>>
    [] step = "set" /\ op = "UpdateRecord" ->
         <<"failed to add updated record to zone", KnotcFailed>>
    [] step = "unset" /\ op = "UpdateRecord" ->
         <<"failed to remove old record from zone", KnotcFailed>>
    [] step = "unset" /\ op = "DeleteRecord" ->
         <<"failed to remove record from zone", KnotcFailed>>

\* the zone argument of the transaction commands: DeleteRecord passes the zone
\* as given, CreateRecord and UpdateRecord the normalized name
\* transaction commands that name the first allowed zone whatever the call's
TxnZone_FirstAllowed(c) == normalizeZoneName(AllowedZones[1])

TxnZone(c) ==
  IF c.op = "DeleteRecord" THEN c.zone ELSE normalizeZoneName(c.zone)

\* the step after a successful zone-begin and zone-unset
\* a transaction that goes from zone-begin straight to zone-commit
AfterBegin_SkipsSet(op) == "commit"

AfterBegin(op) == IF op = "CreateRecord" THEN "set" ELSE "unset"

AfterUnset(op) == IF op = "UpdateRecord" THEN "set" ELSE "commit"

(***************************************************************************)
(* The calls.  A call runs from its entry to its first command in one      *)
(* step and then one command per step, so that calls interleave between    *)
(* commands.                                                               *)
(***************************************************************************)
NoCall == [op |-> "none", zone |-> <<>>, name |-> <<>>, type |-> <<>>,
           record |-> NoRecord, updates |-> NoUpdates]

NoLoc == [record |-> NoRecord, existingRecord |-> <<>>,
          originalRecordStr |-> <<>>, err |-> Nil]

NoPrev == [zone |-> <<>>, record |-> NoRecord]

Running == [err |-> <<"running">>, val |-> <<>>]

Returned(err, val) == [err |-> err, val |-> val]

CanCall(p) == pc[p] \in {"idle", "done"} /\ ncalls < MaxCalls

\* bookkeeping at the entry of a call
StartCall(p, c) ==
  /\ call' = [call EXCEPT ![p] = c]
  /\ prev' = [prev EXCEPT ![p] =
                 IF call[p].op = "CreateRecord" /\ ret[p].err = Nil
                 THEN [zone |-> call[p].zone, record |-> call[p].record]
                 ELSE NoPrev]
  /\ pre' = [pre EXCEPT ![p] = zoneData]
  /\ ncalls' = ncalls + 1
  /\ UNCHANGED <<arg, res, limiterVars>>

\* the call returns before it has executed any command
ReturnAtEntry(p, err) ==
  /\ pc' = [pc EXCEPT ![p] = "done"]
  /\ ret' = [ret EXCEPT ![p] = Returned(err, <<>>)]
  /\ loc' = [loc EXCEPT ![p] = NoLoc]
  /\ cmds' = [cmds EXCEPT ![p] = <<>>]
  /\ UNCHANGED <<zoneData, txn>>

ReadZone(zone) == Cmd("zone-read", <<normalizeZoneName(zone)>>)

\* CreateRecord after its probe: g is what GetRecord returned for the validated
\* record v
\* the probe whose failure is returned
CreateRecordProbed_ReturnsProbeError(p, v, g) ==
  /\ loc' = [loc EXCEPT ![p] = [NoLoc EXCEPT !.record = v, !.existingRecord = g.rec]]
  /\ IF g.err = Nil /\ SameValues(g.rec[1], v)
     THEN /\ pc' = [pc EXCEPT ![p] = "done"]
          /\ ret' = [ret EXCEPT ![p] = Returned(Nil, <<>>)]
     ELSE IF g.err # Nil /\ g.err # <<"record not found">>
     THEN /\ pc' = [pc EXCEPT ![p] = "done"]
          /\ ret' = [ret EXCEPT ![p] = Returned(g.err, <<>>)]
     ELSE /\ pc' = [pc EXCEPT ![p] = "begin"]
          /\ ret' = [ret EXCEPT ![p] = Running]

CreateRecordProbed(p, v, g) ==
  /\ loc' = [loc EXCEPT ![p] = [NoLoc EXCEPT !.record = v, !.existingRecord = g.rec]]
  /\ IF g.err = Nil /\ SameValues(g.rec[1], v)
     THEN /\ pc' = [pc EXCEPT ![p] = "done"]
          /\ ret' = [ret EXCEPT ![p] = Returned(Nil, <<>>)]
     ELSE /\ pc' = [pc EXCEPT ![p] = "begin"]
          /\ ret' = [ret EXCEPT ![p] = Running]

CreateRecordValid(p, zone, v, ok) ==
  /\ executeKnotc(p, <<>>, ReadZone(zone), ok)
  /\ CreateRecordProbed(p, v, GetRecordResult(v.Name, v.Type, ok, Output(ReadZone(zone))))

CreateRecord(p, zone, record) ==
  /\ CanCall(p)
  /\ StartCall(p, [NoCall EXCEPT !.op = "CreateRecord", !.zone = zone,
                     !.name = record.Name, !.type = record.Type, !.record = record])
  /\ IF ~IsZoneAllowed(AllowedZones, zone) THEN ReturnAtEntry(p, <<"zone not allowed">>)
     ELSE IF ~Validate(record).ok THEN ReturnAtEntry(p, <<"invalid record">>)
     ELSE \E ok \in BOOLEAN : CreateRecordValid(p, zone, Validate(record).rec, ok)

\* UpdateRecord formatting the line to remove after the updates were applied
UpdateRecordMerged_LateCapture(p, existingRecord, m) ==
  /\ loc' = [loc EXCEPT ![p] =
               [NoLoc EXCEPT !.record = m.rec,
                  !.existingRecord = <<existingRecord>>,
                  !.originalRecordStr = ToKnotFormat(m.rec)]]
  /\ IF ~m.ok
     THEN /\ pc' = [pc EXCEPT ![p] = "done"]
          /\ ret' = [ret EXCEPT ![p] = Returned(<<"invalid updated record">>, <<>>)]
     ELSE /\ pc' = [pc EXCEPT ![p] = "begin"]
          /\ ret' = [ret EXCEPT ![p] = Running]

\* UpdateRecord after the updates were applied to the existing record: m is
\* what Validate made of the merged record
\* the merge that is not validated again
UpdateRecordMerged_NoRevalidate(p, existingRecord, m) ==
  /\ loc' = [loc EXCEPT ![p] =
               [NoLoc EXCEPT !.record = m.rec,
                  !.existingRecord = <<existingRecord>>,
                  !.originalRecordStr = ToKnotFormat(existingRecord)]]
  /\ pc' = [pc EXCEPT ![p] = "begin"]
  /\ ret' = [ret EXCEPT ![p] = Running]

UpdateRecordMerged(p, existingRecord, m) ==
  /\ loc' = [loc EXCEPT ![p] =
               [NoLoc EXCEPT !.record = m.rec,
                  !.existingRecord = <<existingRecord>>,
                  !.originalRecordStr = ToKnotFormat(existingRecord)]]
  /\ IF ~m.ok
     THEN /\ pc' = [pc EXCEPT ![p] = "done"]
          /\ ret' = [ret EXCEPT ![p] = Returned(<<"invalid updated record">>, <<>>)]
     ELSE /\ pc' = [pc EXCEPT ![p] = "begin"]
          /\ ret' = [ret EXCEPT ![p] = Running]

UpdateRecordProbed(p, updates, g) ==
  IF g.err # Nil
  THEN /\ pc' = [pc EXCEPT ![p] = "done"]
       /\ ret' = [ret EXCEPT ![p] = Returned(<<"record not found">> \o g.err, <<>>)]
       /\ loc' = [loc EXCEPT ![p] = NoLoc]
  ELSE UpdateRecordMerged(p, g.rec[1], Validate(ApplyUpdates(g.rec[1], updates)))

UpdateRecord(p, zone, name, recordType, updates) ==
  /\ CanCall(p)
  /\ StartCall(p, [NoCall EXCEPT !.op = "UpdateRecord", !.zone = zone,
                     !.name = name, !.type = recordType, !.updates = updates])
  /\ IF ~IsZoneAllowed(AllowedZones, zone) THEN ReturnAtEntry(p, <<"zone not allowed">>)
     ELSE \E ok \in BOOLEAN :
            /\ executeKnotc(p, <<>>, ReadZone(zone), ok)
            /\ UpdateRecordProbed(p, updates,
                 GetRecordResult(name, recordType, ok, Output(ReadZone(zone))))

\* DeleteRecord without the existence check
DeleteRecordProbed_NoCheck(p, g) ==
  /\ loc' = [loc EXCEPT ![p] = [NoLoc EXCEPT !.existingRecord = g.rec]]
  /\ pc' = [pc EXCEPT ![p] = "begin"]
  /\ ret' = [ret EXCEPT ![p] = Running]

DeleteRecordProbed(p, g) ==
  /\ loc' = [loc EXCEPT ![p] = [NoLoc EXCEPT !.existingRecord = g.rec]]
  /\ IF g.err # Nil
     THEN /\ pc' = [pc EXCEPT ![p] = "done"]
          /\ ret' = [ret EXCEPT ![p] = Returned(<<"record not found">> \o g.err, <<>>)]
     ELSE /\ pc' = [pc EXCEPT ![p] = "begin"]
          /\ ret' = [ret EXCEPT ![p] = Running]

DeleteRecord(p, zone, name, recordType) ==
  /\ CanCall(p)
  /\ StartCall(p, [NoCall EXCEPT !.op = "DeleteRecord", !.zone = zone,
                     !.name = name, !.type = recordType])
  /\ IF ~IsZoneAllowed(AllowedZones, zone) THEN ReturnAtEntry(p, <<"zone not allowed">>)
     ELSE \E ok \in BOOLEAN :
            /\ executeKnotc(p, <<>>, ReadZone(zone), ok)
            /\ DeleteRecordProbed(p,
                 GetRecordResult(name, recordType, ok, Output(ReadZone(zone))))

\* a command of the transaction failed: abort first, or return at once
Failed(p, step) ==
  IF OnError(call[p].op, step) = "abort"
  THEN /\ pc' = [pc EXCEPT ![p] = "abort"]
       /\ loc' = [loc EXCEPT ![p].err = StepError(call[p].op, step)]
       /\ UNCHANGED ret
  ELSE /\ pc' = [pc EXCEPT ![p] = "done"]
       /\ ret' = [ret EXCEPT ![p] = Returned(StepError(call[p].op, step), <<>>)]
       /\ UNCHANGED loc

Goto(p, step) ==
  /\ pc' = [pc EXCEPT ![p] = step]
  /\ UNCHANGED <<loc, ret>>

ZoneBegin(p) ==
  /\ pc[p] = "begin"
  /\ \E ok \in BOOLEAN :
       /\ executeKnotc(p, cmds[p], Cmd("zone-begin", <<TxnZone(call[p])>>), ok)
       /\ IF ok THEN Goto(p, AfterBegin(call[p].op)) ELSE Failed(p, "begin")
  /\ UNCHANGED <<call, prev, pre, ncalls, arg, res, limiterVars>>

\* the removal by name and type alone
UnsetMatch_NameType(p) == call[p].name \o <<" ">> \o call[p].type

\* the match UpdateRecord and DeleteRecord pass to zone-unset
UnsetMatch(p) ==
  IF call[p].op = "UpdateRecord" THEN loc[p].originalRecordStr
  ELSE call[p].name \o <<" ">> \o call[p].type

ZoneUnset(p) ==
  /\ pc[p] = "unset"
  /\ \E ok \in BOOLEAN :
       /\ executeKnotc(p, cmds[p],
                       Cmd("zone-unset", <<TxnZone(call[p]), UnsetMatch(p)>>), ok)
       /\ IF ok THEN Goto(p, AfterUnset(call[p].op)) ELSE Failed(p, "unset")
  /\ UNCHANGED <<call, prev, pre, ncalls, arg, res, limiterVars>>

ZoneSet(p) ==
  /\ pc[p] = "set"
  /\ \E ok \in BOOLEAN :
       /\ executeKnotc(p, cmds[p],
                       Cmd("zone-set",
                           ZoneSetArgs(normalizeZoneName(call[p].zone), loc[p].record)),
                       ok)
       /\ IF ok THEN Goto(p, "commit") ELSE Failed(p, "set")
  /\ UNCHANGED <<call, prev, pre, ncalls, arg, res, limiterVars>>

ZoneCommit(p) ==
  /\ pc[p] = "commit"
  /\ \E ok \in BOOLEAN :
       /\ executeKnotc(p, cmds[p], Cmd("zone-commit", <<TxnZone(call[p])>>), ok)
       /\ IF ok
          THEN /\ pc' = [pc EXCEPT ![p] = "done"]
               /\ ret' = [ret EXCEPT ![p] = Returned(Nil, <<>>)]
               /\ UNCHANGED loc
          ELSE Failed(p, "commit")
  /\ UNCHANGED <<call, prev, pre, ncalls, arg, res, limiterVars>>

\* a zone-commit where the code issues zone-abort
ZoneAbort_Commits(p) ==
  /\ pc[p] = "abort"
  /\ \E ok \in BOOLEAN :
       executeKnotc(p, cmds[p], Cmd("zone-commit", <<TxnZone(call[p])>>), ok)
  /\ pc' = [pc EXCEPT ![p] = "done"]
  /\ ret' = [ret EXCEPT ![p] = Returned(loc[p].err, <<>>)]
  /\ UNCHANGED <<loc, call, prev, pre, ncalls, arg, res, limiterVars>>

\* the zone-abort after a failed command: its own result is dropped and the
\* error of the failed command is returned
ZoneAbort(p) ==
  /\ pc[p] = "abort"
  /\ \E ok \in BOOLEAN :
       executeKnotc(p, cmds[p], Cmd("zone-abort", <<TxnZone(call[p])>>), ok)
  /\ pc' = [pc EXCEPT ![p] = "done"]
  /\ ret' = [ret EXCEPT ![p] = Returned(loc[p].err, <<>>)]
  /\ UNCHANGED <<loc, call, prev, pre, ncalls, arg, res, limiterVars>>

\* a read-only call returns what its helper returned
ReturnRead(p, err, val) ==
  /\ pc' = [pc EXCEPT ![p] = "done"]
  /\ ret' = [ret EXCEPT ![p] = Returned(err, val)]
  /\ loc' = [loc EXCEPT ![p] = NoLoc]

GetRecordsReturn(p, r) == ReturnRead(p, r.err, r.records)

GetRecords(p, zone) ==
  /\ CanCall(p)
  /\ StartCall(p, [NoCall EXCEPT !.op = "GetRecords", !.zone = zone])
  /\ IF ~IsZoneAllowed(AllowedZones, zone) THEN ReturnAtEntry(p, <<"zone not allowed">>)
     ELSE \E ok \in BOOLEAN :
            /\ executeKnotc(p, <<>>, ReadZone(zone), ok)
            /\ GetRecordsReturn(p, GetRecordsResult(ok, Output(ReadZone(zone))))

GetRecordReturn(p, g) == ReturnRead(p, g.err, g.rec)

GetRecord(p, zone, name, recordType) ==
  /\ CanCall(p)
  /\ StartCall(p, [NoCall EXCEPT !.op = "GetRecord", !.zone = zone,
                     !.name = name, !.type = recordType])
  /\ IF ~IsZoneAllowed(AllowedZones, zone) THEN ReturnAtEntry(p, <<"zone not allowed">>)
     ELSE \E ok \in BOOLEAN :
            /\ executeKnotc(p, <<>>, ReadZone(zone), ok)
            /\ GetRecordReturn(p,
                 GetRecordResult(name, recordType, ok, Output(ReadZone(zone))))

\* a reload wrapped in a transaction: it begins one
ReloadZone_Begins(p, zone) ==
  /\ CanCall(p)
  /\ StartCall(p, [NoCall EXCEPT !.op = "ReloadZone", !.zone = zone])
  /\ IF ~IsZoneAllowed(AllowedZones, zone) THEN ReturnAtEntry(p, <<"zone not allowed">>)
     ELSE \E ok \in BOOLEAN :
            /\ executeKnotc(p, <<>>, Cmd("zone-begin", <<zone>>), ok)
            /\ pc' = [pc EXCEPT ![p] = "done"]
            /\ ret' = [ret EXCEPT ![p] =
                         Returned(IF ok THEN Nil
                                  ELSE <<"failed to reload zone", KnotcFailed>>, <<>>)]
            /\ loc' = [loc EXCEPT ![p] = NoLoc]

ReloadZone(p, zone) ==
  /\ CanCall(p)
  /\ StartCall(p, [NoCall EXCEPT !.op = "ReloadZone", !.zone = zone])
  /\ IF ~IsZoneAllowed(AllowedZones, zone) THEN ReturnAtEntry(p, <<"zone not allowed">>)
     ELSE \E ok \in BOOLEAN :
            /\ executeKnotc(p, <<>>, Cmd("zone-reload", <<zone>>), ok)
            /\ pc' = [pc EXCEPT ![p] = "done"]
            /\ ret' = [ret EXCEPT ![p] =
                         Returned(IF ok THEN Nil
                                  ELSE <<"failed to reload zone", KnotcFailed>>, <<>>)]
            /\ loc' = [loc EXCEPT ![p] = NoLoc]

(***************************************************************************)
(* Inputs of the calls and the zones the server starts with                *)
(***************************************************************************)
NameAbs   == <<"a", ".", "e", ".">>
NameRel   == <<"a">>
NameOther == <<"b", ".", "e", ".">>
IP1       == <<"1", ".", "2", ".", "3", ".", "4">>
IP2       == <<"1", ".", "2", ".", "3", ".", "5">>
BadData   == <<"x">>
MailHost  == <<"m", ".", "e">>

ReqZones == {<<"e">>, <<"n", "e">>}

CreateInputs ==
  { DNSRecord(NameAbs, RecordTypeA, U(0), IP1, NoPriority),
    DNSRecord(NameAbs, RecordTypeA, U(60), IP2, NoPriority),
    DNSRecord(NameRel, RecordTypeA, U(60), IP1, NoPriority),
    DNSRecord(NameAbs, RecordTypeMX, U(60), MailHost, <<U(10)>>),
    DNSRecord(NameAbs, RecordTypeA, U(60), BadData, NoPriority) }

\* the (name, type) pairs the calls ask for
ReqTargets ==
  { <<NameAbs, RecordTypeA>>, <<NameAbs, RecordTypeMX>>, <<NameOther, RecordTypeA>> }

UpdateInputs ==
  { NoUpdates,
    [NoUpdates EXCEPT !.TTL = <<U(60)>>],
    [NoUpdates EXCEPT !.Data = <<IP2>>],
    [NoUpdates EXCEPT !.Priority = <<U(20)>>],
    [TTL |-> <<U(60)>>, Data |-> <<IP2>>, Priority |-> <<U(20)>>],
    [NoUpdates EXCEPT !.Data = <<BadData>>] }

InitialZones ==
  { <<>>,
    <<DNSRecord(NameAbs, RecordTypeA, U(300), IP1, NoPriority)>>,
    <<DNSRecord(NameAbs, RecordTypeA, U(300), IP1, NoPriority),
      DNSRecord(NameAbs, RecordTypeA, U(300), IP2, NoPriority)>>,
    <<DNSRecord(NameAbs, RecordTypeA, U(0), IP1, NoPriority)>>,
    <<DNSRecord(NameAbs, RecordTypeMX, U(300), MailHost \o <<".">>, <<U(10)>>)>> }

NoArg == <<>>

\* no request has entered the rate limiter
NoRequest == [pc |-> "idle", clientIP |-> <<>>, now |-> 0, requests |-> <<>>, status |-> <<>>]

ClientIPs == {"10.0.0.1", "10.0.0.2"}

LimiterIdle ==
  /\ clients = [ip \in ClientIPs |-> <<>>]
  /\ clock = 0
  /\ inflight = [p \in Clients |-> NoRequest]
  /\ served = 0

InitKnot ==
  /\ zoneData \in {[z \in KnotZones |-> IF z = ZoneE THEN recs ELSE <<>>] :
                     recs \in InitialZones}
  /\ txn = [z \in KnotZones |-> NoTxn]
  /\ pc = [p \in Clients |-> "idle"]
  /\ call = [p \in Clients |-> NoCall]
  /\ loc = [p \in Clients |-> NoLoc]
  /\ cmds = [p \in Clients |-> <<>>]
  /\ ret = [p \in Clients |-> Returned(Nil, <<>>)]
  /\ prev = [p \in Clients |-> NoPrev]
  /\ pre = [p \in Clients |-> [z \in KnotZones |-> <<>>]]
  /\ ncalls = 0

InitStore == InitKnot /\ LimiterIdle

Init ==
  /\ InitStore
  /\ arg = NoArg
  /\ res = FALSE

Next ==
  \E p \in Procs :
  \/ \E zone \in ReqZones, record \in CreateInputs : CreateRecord(p, zone, record)
  \/ \E zone \in ReqZones, t \in ReqTargets, u \in UpdateInputs :
       UpdateRecord(p, zone, t[1], t[2], u)
  \/ \E zone \in ReqZones, t \in ReqTargets : DeleteRecord(p, zone, t[1], t[2])
  \/ \E zone \in ReqZones : GetRecords(p, zone)
  \/ \E zone \in ReqZones, t \in ReqTargets : GetRecord(p, zone, t[1], t[2])
  \/ \E zone \in ReqZones : ReloadZone(p, zone)
  \/ ZoneBegin(p)
  \/ ZoneUnset(p)
  \/ ZoneSet(p)
  \/ ZoneCommit(p)
  \/ ZoneAbort(p)

\* calls made one after another by one client
Spec == Init /\ [][Next]_vars

(***************************************************************************)
(* IsZoneAllowed applied to zones and allow-lists of its own               *)
(***************************************************************************)
GuardZones ==
  { <<"e">>, <<"e", ".">>, <<"a", ".", "e">>, <<"a", ".", "e", ".">>,
    <<"a", ".", "b", ".", "e">>, <<"a", ".", "b", ".", "e", ".">>,
    <<"n", "e">>, <<"n", "e", ".">>, <<"a", ".", "n", "e">>,
    <<"b">>, <<"e", ".", "b">>, <<"b", ".", "e">> }

GuardLists ==
  { <<>>, << <<"e">> >>, << <<"e", ".">> >>, << <<"b", ".", "e">> >>,
    << <<"n", "e">> >>, << <<"b">>, <<"e">> >>, << <<"b", ".">>, <<"n", "e", ".">> >>,
    << <<"a", ".", "b", ".", "e">> >>, << <<"e", ".", "b", ".">> >> }

InitGuard ==
  /\ InitStore
  /\ arg = NoArg
  /\ res = FALSE

ApplyIsZoneAllowed ==
  /\ \E allowedZones \in GuardLists, zone \in GuardZones :
       /\ arg' = <<allowedZones, zone>>
       /\ res' = IsZoneAllowed(allowedZones, zone)
  /\ UNCHANGED storeVars

SpecGuard == InitGuard /\ [][ApplyIsZoneAllowed]_vars


(***************************************************************************)
(* What a call has issued, and what the zone held when it started          *)
(***************************************************************************)
TxnCmds == {"zone-begin", "zone-set", "zone-unset", "zone-commit", "zone-abort"}

Mutating == {"CreateRecord", "UpdateRecord", "DeleteRecord"}

Issued(p) == {cmds[p][i].cmd : i \in 1..Len(cmds[p])}

AllOk(p) == \A i \in 1..Len(cmds[p]) : cmds[p][i].ok

Done(p, op) == pc[p] = "done" /\ call[p].op = op

FailedAt(p, i, names) == cmds[p][i].cmd \in names /\ ~cmds[p][i].ok

\* the command after the i-th is a zone-abort for the zone of the call
AbortFollows(p, i) ==
  /\ i < Len(cmds[p])
  /\ cmds[p][i + 1].cmd = "zone-abort"
  /\ Len(cmds[p][i + 1].args) = 1
  /\ normalizeZoneName(cmds[p][i + 1].args[1]) = normalizeZoneName(call[p].zone)

Range(s) == {s[i] : i \in 1..Len(s)}

\* the records of the call's zone with the given name and type, before the call
Siblings(p, name, type) ==
  {r \in Range(pre[p][normalizeZoneName(call[p].zone)]) : r.Name = name /\ r.Type = type}

\* C1: when CreateRecord(zone, r) has succeeded and the next call is
\* CreateRecord(zone, r) with the same field values, and none of that call's
\* commands fails, the second call returns success and has issued no
\* zone-begin, zone-set, zone-unset, zone-commit or zone-abort.
C1_SecondCreateIsNoOp ==
  \A p \in Procs :
    (/\ Done(p, "CreateRecord")
     /\ prev[p] = [zone |-> call[p].zone, record |-> call[p].record]
     /\ AllOk(p))
    => /\ ret[p].err = Nil
       /\ Issued(p) \cap TxnCmds = {}

\* C2: in CreateRecord and UpdateRecord a failed zone-set is followed, before
\* the call returns, by a zone-abort for the zone, and the call returns the
\* error of the zone-set whatever the zone-abort answered.
C2_SetFailureAborts ==
  \A p \in Procs : \A i \in 1..Len(cmds[p]) :
    (call[p].op \in {"CreateRecord", "UpdateRecord"} /\ FailedAt(p, i, {"zone-set"}))
    => IF pc[p] = "done"
       THEN /\ AbortFollows(p, i)
            /\ Len(cmds[p]) = i + 1
            /\ ret[p].err =
                 <<IF call[p].op = "CreateRecord" THEN "failed to add record to zone"
                   ELSE "failed to add updated record to zone", KnotcFailed>>
       ELSE pc[p] = "abort" /\ Len(cmds[p]) = i

\* a call returned after its zone-set failed and its zone-abort failed too
C2_Witness ==
  \E p \in Procs : \E i \in 1..Len(cmds[p]) :
    /\ Done(p, "UpdateRecord")
    /\ FailedAt(p, i, {"zone-set"})
    /\ AbortFollows(p, i)
    /\ ~cmds[p][i + 1].ok
    /\ ret[p].err = <<"failed to add updated record to zone", KnotcFailed>>

\* C3: in CreateRecord, UpdateRecord and DeleteRecord every failed zone-unset,
\* zone-set or zone-commit is followed by a zone-abort for the zone before the
\* call returns.
C3_PostBeginFailureAborts ==
  \A p \in Procs : \A i \in 1..Len(cmds[p]) :
    (/\ pc[p] = "done"
     /\ call[p].op \in Mutating
     /\ FailedAt(p, i, {"zone-unset", "zone-set", "zone-commit"}))
    => AbortFollows(p, i)

\* C4: a mutating call whose zone-begin succeeded, and whose zone-abort (if it
\* issued one) succeeded, has left no transaction open when it has returned.
C4_NoTransactionLeftOpen ==
  \A p \in Procs :
    (/\ pc[p] = "done"
     /\ call[p].op \in Mutating
     /\ \E i \in 1..Len(cmds[p]) : cmds[p][i].cmd = "zone-begin" /\ cmds[p][i].ok
     /\ \A i \in 1..Len(cmds[p]) : ~FailedAt(p, i, {"zone-abort"}))
    => \A z \in KnotZones : ~TxnOpen(z)


\* the record UpdateRecord fetched, and the zone as it is now
Fetched(p) == loc[p].existingRecord[1]

ZoneNow(p) == Range(zoneData[normalizeZoneName(call[p].zone)])

ZoneBefore(p) == Range(pre[p][normalizeZoneName(call[p].zone)])

\* the zone holds the merged record under the name and type of the fetched one
MergedStored(p) ==
  \E r \in ZoneNow(p) :
    /\ r.Name = Fetched(p).Name
    /\ r.Type = Fetched(p).Type
    /\ r.TTL = loc[p].record.TTL
    /\ r.Data = loc[p].record.Data

\* C5: when the zone held two or more records with the name and type that a
\* successful UpdateRecord asked for, every record other than the fetched one
\* is still in the zone, the merged record is in the zone, and the fetched
\* record is gone unless the merged record equals it.
C5_UpdateLeavesSiblings ==
  \A p \in Procs :
    (/\ Done(p, "UpdateRecord")
     /\ ret[p].err = Nil
     /\ Cardinality(Siblings(p, call[p].name, call[p].type)) >= 2)
    => /\ Fetched(p) \in Siblings(p, call[p].name, call[p].type)
       /\ \A r \in ZoneBefore(p) \ {Fetched(p)} : r \in ZoneNow(p)
       /\ MergedStored(p)
       /\ Fetched(p) \in ZoneNow(p) =>
            Fetched(p).TTL = loc[p].record.TTL /\ Fetched(p).Data = loc[p].record.Data

\* a successful UpdateRecord changed one of two sibling records
C5_Witness ==
  \E p \in Procs :
    /\ Done(p, "UpdateRecord")
    /\ ret[p].err = Nil
    /\ Cardinality(Siblings(p, call[p].name, call[p].type)) >= 2
    /\ Fetched(p) \notin ZoneNow(p)
    /\ (ZoneBefore(p) \ {Fetched(p)}) # {}
    /\ ZoneBefore(p) \ {Fetched(p)} \subseteq ZoneNow(p)

\* the zone of the requests that is outside the allow-list
DeniedZone == <<"n", "e">>

\* C6: a call for a zone outside the allow-list issues no command at all and
\* returns the "zone not allowed" error, whichever operation it is.
C6_DeniedZoneIssuesNothing ==
  \A p \in Procs :
    (call[p].op # "none" /\ call[p].zone = DeniedZone)
    => /\ pc[p] = "done"
       /\ cmds[p] = <<>>
       /\ ret[p].err = <<"zone not allowed">>

\* a DeleteRecord for the zone outside the allow-list has returned
C6_Witness ==
  \E p \in Procs :
    /\ Done(p, "DeleteRecord")
    /\ call[p].zone = DeniedZone
    /\ ret[p].err = <<"zone not allowed">>
    /\ cmds[p] = <<>>

\* the labels of a name, whether or not it is written with a trailing dot
Labels(name) == Split(TrimSuffix(name, <<".">>), ".")

IsLabelSuffix(e, z) ==
  Len(e) <= Len(z) /\ SubSeq(z, Len(z) - Len(e) + 1, Len(z)) = e

AllowedByLabels(allowList, zone) ==
  \/ allowList = <<>>
  \/ \E i \in 1..Len(allowList) : IsLabelSuffix(Labels(allowList[i]), Labels(zone))

Validated(p) == Validate(call[p].record).rec

Differs(r, v) == r.TTL # v.TTL \/ r.Data # v.Data \/ r.Priority # v.Priority

\* the zone-read of the call succeeded, the record is valid, and the zone held
\* no record of its name and type or only records with other values
CreateMustWrite(p) ==
  /\ Done(p, "CreateRecord")
  /\ call[p].zone = AllowedZones[1]
  /\ Validate(call[p].record).ok
  /\ cmds[p][1].ok
  /\ \A r \in Siblings(p, Validated(p).Name, Validated(p).Type) : Differs(r, Validated(p))

\* the arguments of a zone-set carry the TTL, type, priority and data of v
CarriesFields(a, v) ==
  /\ a[1] = normalizeZoneName(AllowedZones[1])
  /\ a[3] = FormatUint(v.TTL)
  /\ a[4] = v.Type
  /\ a[Len(a)] = v.Data
  /\ IF v.Type = RecordTypeMX
     THEN Len(a) = 6 /\ a[5] = FormatUint(v.Priority[1])
     ELSE Len(a) = 5

\* C8: a CreateRecord for a name and type that the zone does not hold, or
\* holds only with other values, issues zone-begin, then (when that succeeded)
\* zone-set with the validated record's fields, then (when that succeeded)
\* zone-commit, and returns success when the zone-commit succeeded.
C8_CreateIssuesBeginSetCommit ==
  \A p \in Procs :
    CreateMustWrite(p)
    => /\ Len(cmds[p]) >= 2
       /\ cmds[p][2].cmd = "zone-begin"
       /\ cmds[p][2].ok =>
            /\ Len(cmds[p]) >= 3
            /\ cmds[p][3].cmd = "zone-set"
            /\ CarriesFields(cmds[p][3].args, Validated(p))
            /\ cmds[p][3].ok =>
                 /\ Len(cmds[p]) = 4
                 /\ cmds[p][4].cmd = "zone-commit"
                 /\ cmds[p][4].ok => ret[p].err = Nil

\* a CreateRecord with TTL 0 for a name and type held with TTL 0 has issued
\* its three commands, the zone-set with TTL 300, and returned success
C8_Witness ==
  \E p \in Procs :
    /\ CreateMustWrite(p)
    /\ Siblings(p, Validated(p).Name, Validated(p).Type) # {}
    /\ call[p].record.TTL = U(0)
    /\ Len(cmds[p]) = 4
    /\ AllOk(p)
    /\ cmds[p][3].args[3] = <<"3", "0", "0">>
    /\ ret[p].err = Nil

\* the zone-set commands of an UpdateRecord call
UpdateSets(p) ==
  IF call[p].op = "UpdateRecord"
  THEN {i \in 1..Len(cmds[p]) : cmds[p][i].cmd = "zone-set"}
  ELSE {}

\* the fields other than the TTL that the delta does not give are those of the
\* fetched record, and so are the name and the type
KeepsOthers(p, a) ==
  /\ call[p].updates.Data = <<>> => a[Len(a)] = Fetched(p).Data
  /\ call[p].updates.Priority = <<>> => loc[p].record.Priority = Fetched(p).Priority
  /\ (call[p].updates.Priority = <<>> /\ Fetched(p).Type = RecordTypeMX)
       => a[5] = FormatUint(Fetched(p).Priority[1])
  /\ a[4] = Fetched(p).Type
  /\ a[4] = call[p].type
  /\ AbsName(a[2], a[1]) = Fetched(p).Name
  /\ Fetched(p).Name = call[p].name

\* C9 as stated: every field that the delta does not give has, in the record
\* that UpdateRecord sets, the value of the fetched record, the TTL included;
\* name and type are those of the fetched record.
C9_AbsentFieldsKept ==
  \A p \in Procs : \A i \in UpdateSets(p) :
    /\ KeepsOthers(p, cmds[p][i].args)
    /\ call[p].updates.TTL = <<>> => cmds[p][i].args[3] = FormatUint(Fetched(p).TTL)

\* C9: every field that the delta does not give has, in the record that
\* UpdateRecord sets, the value of the fetched record, except that a TTL of 0
\* in the fetched record is set as 300; name and type are those of the fetched
\* record.
C9_AbsentFieldsKeptButZeroTTL ==
  \A p \in Procs : \A i \in UpdateSets(p) :
    /\ KeepsOthers(p, cmds[p][i].args)
    /\ call[p].updates.TTL = <<>> =>
         cmds[p][i].args[3] =
           FormatUint(IF Fetched(p).TTL = U(0) THEN U(300) ELSE Fetched(p).TTL)

\* an UpdateRecord that gives only new data for a record it fetched with TTL 0
\* has set the new data with TTL 300
C9_Witness ==
  \E p \in Procs : \E i \in UpdateSets(p) :
    /\ call[p].updates = [NoUpdates EXCEPT !.Data = <<IP2>>]
    /\ Fetched(p).TTL = U(0)
    /\ Fetched(p).Data = IP1
    /\ cmds[p][i].args[3] = <<"3", "0", "0">>
    /\ cmds[p][i].args[5] = IP2

\* C10: an UpdateRecord or DeleteRecord for a name and type of which the
\* allowed zone holds no record returns a "record not found" error and issues
\* no zone-begin, zone-set, zone-unset, zone-commit or zone-abort.
C10_AbsentTargetIsNotFound ==
  \A p \in Procs :
    (/\ call[p].op \in {"UpdateRecord", "DeleteRecord"}
     /\ call[p].zone = AllowedZones[1]
     /\ Siblings(p, call[p].name, call[p].type) = {})
    => /\ pc[p] = "done"
       /\ ret[p].err # Nil
       /\ ret[p].err[1] = "record not found"
       /\ Issued(p) \cap TxnCmds = {}

\* a DeleteRecord read a zone that holds other records and returned not found
C10_Witness ==
  \E p \in Procs :
    /\ Done(p, "DeleteRecord")
    /\ call[p].zone = AllowedZones[1]
    /\ Siblings(p, call[p].name, call[p].type) = {}
    /\ ZoneBefore(p) # {}
    /\ cmds[p] # <<>> /\ AllOk(p)
    /\ ret[p].err = <<"record not found", "record not found">>


\* C11: a CreateRecord, UpdateRecord or DeleteRecord that has returned an
\* error has left the committed records of every zone as they were when the
\* call started.
C11_ErrorLeavesZoneUnchanged ==
  \A p \in Procs :
    (pc[p] = "done" /\ call[p].op \in Mutating /\ ret[p].err # Nil)
    => zoneData = pre[p]

\* an UpdateRecord whose zone-unset succeeded and whose zone-set failed has
\* returned the error, and the zone still holds the record it fetched
C11_Witness ==
  \E p \in Procs : \E i \in 2..Len(cmds[p]) :
    /\ Done(p, "UpdateRecord")
    /\ cmds[p][i - 1].cmd = "zone-unset" /\ cmds[p][i - 1].ok
    /\ FailedAt(p, i, {"zone-set"})
    /\ ret[p].err # Nil
    /\ Fetched(p) \in ZoneNow(p)
    /\ zoneData = pre[p]


(***************************************************************************)
(* GetRecords applied to zone-read outputs of its own                      *)
(***************************************************************************)
Sp == <<" ">>

TTL300 == <<"3", "0", "0">>

LineA == NameAbs \o Sp \o TTL300 \o Sp \o RecordTypeA \o Sp \o IP1

LinePadded == Sp \o Sp \o NameOther \o Sp \o <<"6", "0">> \o Sp \o Sp \o RecordTypeA \o Sp \o IP2 \o Sp

LineMX == NameAbs \o Sp \o TTL300 \o Sp \o RecordTypeMX \o Sp \o <<"1", "0">> \o Sp \o MailHost

LineShort == NameAbs \o Sp \o TTL300 \o Sp \o RecordTypeA

LineBadTTL == NameAbs \o Sp \o <<"x">> \o Sp \o RecordTypeA \o Sp \o IP1

LineMXNoPriority == NameAbs \o Sp \o TTL300 \o Sp \o RecordTypeMX \o Sp \o MailHost

LineBlank == Sp

LineComment == <<";", ";", " ">> \o LineA

ReadLines ==
  { LineA, LinePadded, LineMX, LineShort, LineBadTTL, LineMXNoPriority,
    LineBlank, LineComment }

\* the longest zone-read output
MaxLines == 2

ReadOutputs == UNION {[1..n -> ReadLines] : n \in 0..MaxLines}

\* the store with nothing in its zones, for the functions that do not read
\* it, about to apply a function to one of the given arguments: res is <<>>
\* until the function has returned and <<result>> after
NoRes == <<>>

InitIdle(args) ==
  /\ InitStore
  /\ zoneData[ZoneE] = <<>>
  /\ arg \in args
  /\ res = NoRes

InitRead == InitIdle(BOOLEAN \X ReadOutputs)

ApplyGetRecords ==
  /\ res = NoRes
  /\ res' = <<GetRecordsResult(arg[1], arg[2])>>
  /\ UNCHANGED <<arg, storeVars>>

SpecRead == InitRead /\ [][ApplyGetRecords]_vars

\* a line GetRecords has to return: not blank, not a comment, and it parses
Returnable(line) ==
  /\ TrimSpace(line) # <<>>
  /\ TrimSpace(line)[1] # ";"
  /\ ParseKnotRecord(TrimSpace(line)).ok

ReturnableLines(out) == SelectSeq(out, Returnable)

\* C12: GetRecords returns an error exactly when its zone-read failed;
\* otherwise it returns, in the order of the output, the record of every line
\* that is not blank, not a comment and parses, and nothing else.
C12_ListSkipsUnparsedLines ==
  res # NoRes =>
    /\ (res[1].err # Nil) <=> ~arg[1]
    /\ arg[1] =>
         /\ Len(res[1].records) = Len(ReturnableLines(arg[2]))
         /\ \A i \in 1..Len(res[1].records) :
              res[1].records[i] =
                ParseKnotRecord(TrimSpace(ReturnableLines(arg[2])[i])).rec

\* a line of three fields was skipped and the line after it was returned
C12_Witness ==
  /\ arg = <<TRUE, <<LineShort, LinePadded>>>>
  /\ res # NoRes
  /\ res[1].err = Nil
  /\ res[1].records = <<DNSRecord(NameOther, RecordTypeA, U(60), IP2, NoPriority)>>


(***************************************************************************)
(* internal/knot/client.go: GetZones, applied to conf-read outputs         *)
(***************************************************************************)
RECURSIVE IndexFrom(_, _, _)
IndexFrom(s, c, i) ==
  IF i > Len(s) THEN -1
  ELSE IF s[i] = c THEN i - 1
  ELSE IndexFrom(s, c, i + 1)

\* strings.Index(s, c) for a one-character c: counted from 0, -1 if absent
Index(s, c) == IndexFrom(s, c, 1)

\* line[start+1 : end], <<>> for a line without the two brackets in order
ZoneBetween(line, start, end) ==
  IF start # -1 /\ end # -1 /\ end > start
  THEN <<SubSeq(line, start + 2, end)>>
  ELSE <<>>

ZoneOfLine(line) == ZoneBetween(line, Index(line, "["), Index(line, "]"))

\* a scanner loop that keeps every zone name it finds
KeepZone_Unfiltered(allowedZones, found, rest) ==
  IF found # <<>> THEN <<found[1]>> \o rest ELSE rest

KeepZone(allowedZones, found, rest) ==
  IF found # <<>> /\ IsZoneAllowed(allowedZones, found[1])
  THEN <<found[1]>> \o rest
  ELSE rest

ZonePrefix == <<"z", "o", "n", "e", "[">>

ScanZoneLine(allowedZones, line, rest) ==
  IF HasPrefix(line, ZonePrefix) THEN KeepZone(allowedZones, ZoneOfLine(line), rest)
  ELSE rest

RECURSIVE ScanZones(_, _)
ScanZones(allowedZones, lines) ==
  IF Len(lines) = 0 THEN <<>>
  ELSE ScanZoneLine(allowedZones, TrimSpace(lines[1]),
                    ScanZones(allowedZones, Tail(lines)))

\* what GetZones returns, given how its conf-read ended
GetZonesResult(allowedZones, ok, out) ==
  IF ~ok THEN [err |-> <<"failed to get zones", KnotcFailed>>, zones |-> <<>>]
  ELSE [err |-> Nil, zones |-> ScanZones(allowedZones, out)]

ConfLines ==
  { ZonePrefix \o <<"e", "]">>,
    ZonePrefix \o <<"e", ".", "]", ".", "f", " ", "=", " ", "x">>,
    ZonePrefix \o <<"n", "e", "]">>,
    Sp \o ZonePrefix \o <<"a", ".", "e", "]">> \o Sp,
    ZonePrefix \o <<"b", "]", "]">>,
    ZonePrefix \o <<"e">>,
    <<"s", "e", "r", "v", "e", "r">>,
    <<"z", "o", "n", "e", ".", "e", "]">> }

ConfAllowLists == { <<>>, << <<"e">> >>, << <<"b", ".">>, <<"n", "e">> >> }

\* the longest conf-read output
MaxConfLines == 2

ConfOutputs == UNION {[1..n -> ConfLines] : n \in 0..MaxConfLines}

InitZones == InitIdle(ConfAllowLists \X BOOLEAN \X ConfOutputs)

ApplyGetZones ==
  /\ res = NoRes
  /\ res' = <<GetZonesResult(arg[1], arg[2], arg[3])>>
  /\ UNCHANGED <<arg, storeVars>>

SpecZones == InitZones /\ [][ApplyGetZones]_vars

\* the line, without the blanks around it, is zone[<name>] and what may follow
IsZoneLine(line, name) ==
  /\ Len(TrimSpace(line)) >= Len(name) + 6
  /\ SubSeq(TrimSpace(line), 1, 5) = ZonePrefix
  /\ SubSeq(TrimSpace(line), 6, Len(name) + 5) = name
  /\ TrimSpace(line)[Len(name) + 6] = "]"
  /\ \A i \in 1..Len(name) : name[i] # "]"

\* the names a line can carry: at most one
NamesOf(line) ==
  {name \in {SubSeq(TrimSpace(line), 6, k) : k \in 5..Len(TrimSpace(line))} :
     IsZoneLine(line, name)}

\* the line carries a name that the allow-list allows
AllowedZoneLine(allowList, line) ==
  \E name \in NamesOf(line) : AllowedByLabels(allowList, name)

\* C13: GetZones returns, in the order of the conf-read output, the name of
\* every line of the form zone[<name>] whose name the allow-list allows, and
\* nothing else; it fails only when conf-read fails.
C13_ListZonesFiltersByGuard ==
  res # NoRes =>
    /\ (res[1].err # Nil) <=> ~arg[2]
    /\ arg[2] =>
         /\ Len(res[1].zones) =
              Len(SelectSeq(arg[3], LAMBDA l : AllowedZoneLine(arg[1], l)))
         /\ \A i \in 1..Len(res[1].zones) :
              res[1].zones[i] \in
                NamesOf(SelectSeq(arg[3], LAMBDA l : AllowedZoneLine(arg[1], l))[i])

\* of three kinds of line only the zone the allow-list allows was returned
C13_Witness ==
  /\ arg = << << <<"e">> >>, TRUE,
              << ZonePrefix \o <<"n", "e", "]">>,
                 Sp \o ZonePrefix \o <<"a", ".", "e", "]">> \o Sp >> >>
  /\ res = <<[err |-> Nil, zones |-> << <<"a", ".", "e">> >>]>>


(***************************************************************************)
(* Validate applied to records of its own                                  *)
(***************************************************************************)
IPv6Loopback == <<":", ":", "1">>

IPv4Mapped == <<":", ":", "f", "f", "f", "f", ":">> \o IP1

QuotedText == <<Quote, "t", Quote>>

HalfQuotedText == <<"t", Quote>>

ValidateTypes ==
  Range(ValidRecordTypes) \cup {<<"m", "x">>, <<"S", "O", "A">>}

ValidateData ==
  { IP1, IPv6Loopback, IPv4Mapped, MailHost, MailHost \o <<".">>, <<>>, <<".">>,
    BadData, QuotedText, HalfQuotedText }

ValidateInputs ==
  { DNSRecord(name, type, ttl, data, priority) :
      name \in {NameAbs, <<>>}, type \in ValidateTypes, ttl \in {U(0), U(60)},
      data \in ValidateData, priority \in {NoPriority, <<U(10)>>} }

InitValidate == InitIdle(ValidateInputs)

ApplyValidate ==
  /\ res = NoRes
  /\ res' = <<Validate(arg)>>
  /\ UNCHANGED <<arg, storeVars>>

SpecValidate == InitValidate /\ [][ApplyValidate]_vars

\* C14: when Validate has succeeded on a record, Validate succeeds on the
\* record it left and leaves name, type, TTL, data and priority as they are.
C14_ValidateIdempotent ==
  (res # NoRes /\ res[1].ok) =>
    /\ Validate(res[1].rec).ok
    /\ Validate(res[1].rec).rec = res[1].rec

\* Validate has changed both the TTL and the data of a TXT record, and a
\* second Validate of the result changes nothing
C14_Witness ==
  /\ res # NoRes
  /\ res[1].ok
  /\ arg.Type = RecordTypeTXT
  /\ arg.Data = HalfQuotedText
  /\ arg.TTL = U(0)
  /\ res[1].rec.Data = QuotedText
  /\ res[1].rec.TTL = U(300)
  /\ Validate(res[1].rec).rec = res[1].rec

EndsWithDot(d) == d # <<>> /\ d[Len(d)] = "."

\* C15: when Validate has succeeded on a PTR, CNAME, NS or MX record, the data
\* is the given data with one dot appended if the given data did not end with
\* a dot, and the given data itself if it did.
C15_OneTrailingDot ==
  (/\ res # NoRes
   /\ res[1].ok
   /\ arg.Type \in {RecordTypePTR, RecordTypeCNAME, RecordTypeNS, RecordTypeMX})
  => /\ EndsWithDot(res[1].rec.Data)
     /\ res[1].rec.Data = IF EndsWithDot(arg.Data) THEN arg.Data ELSE arg.Data \o <<".">>

\* an MX record given with data "m.e." has been validated and its data is
\* still "m.e."
C15_Witness ==
  /\ res # NoRes
  /\ res[1].ok
  /\ arg.Type = RecordTypeMX
  /\ arg.Data = MailHost \o <<".">>
  /\ res[1].rec.Data = MailHost \o <<".">>


(***************************************************************************)
(* The second ToKnotFormat / ParseKnotRecord of the repository, which      *)
(* knows the class field and the "[zone]" prefix of a zone-read line       *)
(***************************************************************************)
ClassIN == <<"I", "N">>

\* ToKnotFormat with the class field
ToKnotFormat_class(r) ==
  Join(<<r.Name, FormatUint(r.TTL), ClassIN, r.Type>>
         \o (IF r.Type = RecordTypeMX /\ r.Priority # NoPriority
             THEN <<FormatUint(r.Priority[1])>> ELSE <<>>)
         \o <<r.Data>>,
       <<" ">>)

\* "Extract content after the bracket": bracketEnd is counted from 0
AfterBracket(line, bracketEnd) ==
  IF bracketEnd # -1 /\ bracketEnd < Len(line) - 1
  THEN TrimSpace(SubSeq(line, bracketEnd + 2, Len(line)))
  ELSE line

StripBracket(line) ==
  IF HasPrefix(line, <<"[">>) /\ Contains(line, "]")
  THEN AfterBracket(line, Index(line, "]"))
  ELSE line

\* a parser that takes no field for a class
HasClass_Never(parts) == FALSE

\* "Check if we have class field"
HasClass(parts) ==
  Len(parts) >= 5 /\ parts[3] \in {ClassIN, <<"C", "H">>, <<"H", "S">>}

\* the MX case, dataStart counted from 0 as in the code
ParseMX_class(parts, dataStart, ttl, priority) ==
  IF ~priority.ok THEN ParseFailed
  ELSE [ok |-> TRUE,
        rec |-> DNSRecord(parts[1], parts[dataStart], ttl.val,
                          Join(SubSeq(parts, dataStart + 2, Len(parts)), <<" ">>),
                          <<priority.val>>)]

ParseTyped_class(parts, dataStart, ttl) ==
  IF ~ttl.ok THEN ParseFailed
  ELSE IF parts[dataStart] = RecordTypeMX
  THEN IF Len(parts) < dataStart + 2 THEN ParseFailed
       ELSE ParseMX_class(parts, dataStart, ttl, ParseUint(parts[dataStart + 1], 16))
  ELSE [ok |-> TRUE,
        rec |-> DNSRecord(parts[1], parts[dataStart], ttl.val,
                          IF Len(parts) > dataStart
                          THEN Join(SubSeq(parts, dataStart + 1, Len(parts)), <<" ">>)
                          ELSE <<>>,
                          NoPriority)]

ParseParts_class(parts) ==
  IF Len(parts) < 4 THEN ParseFailed
  ELSE ParseTyped_class(parts, IF HasClass(parts) THEN 4 ELSE 3,
                        ParseUint(parts[2], 32))

\* ParseKnotRecord with the class field and the bracket prefix
ParseKnotRecord_class(line) == ParseParts_class(Fields(StripBracket(TrimSpace(line))))

\* the two pairs of functions: "plain" is internal/knot/types.go
Codecs == {"plain", "class"}

Parse(codec, line) ==
  IF codec = "plain" THEN ParseKnotRecord(line) ELSE ParseKnotRecord_class(line)

Format(codec, r) ==
  IF codec = "plain" THEN ToKnotFormat(r) ELSE ToKnotFormat_class(r)

\* Parse, and Parse of Format of what Parse returned
RoundTrip(codec, first) ==
  [first |-> first,
   second |-> IF first.ok THEN Parse(codec, Format(codec, first.rec)) ELSE ParseFailed]

TwoTexts == <<Quote, "t", Quote, " ", " ", Quote, "u", Quote>>

\* the lines: prefix, name, TTL, class, type and data, each present or not
CodecLines ==
  { prefix \o NameAbs \o Sp \o ttl \o class \o Sp \o type \o data :
      prefix \in {<<>>, <<"[", "e", ".", "]", " ">>},
      ttl \in {TTL300, <<"x">>},
      class \in {<<>>, Sp \o ClassIN, Sp \o <<"C", "H">>, Sp \o <<"i", "n">>},
      type \in {RecordTypeA, RecordTypeTXT, RecordTypeNS, RecordTypeMX},
      data \in {<<>>, Sp \o IP1, Sp \o Sp \o TwoTexts \o Sp,
                Sp \o <<"1", "0">> \o Sp \o MailHost} }

InitCodec == InitIdle(Codecs \X CodecLines)

ApplyRoundTrip ==
  /\ res = NoRes
  /\ res' = <<RoundTrip(arg[1], Parse(arg[1], arg[2]))>>
  /\ UNCHANGED <<arg, storeVars>>

SpecCodec == InitCodec /\ [][ApplyRoundTrip]_vars

ConcCreates ==
  { DNSRecord(NameAbs, RecordTypeA, U(0), IP1, NoPriority),
    DNSRecord(NameAbs, RecordTypeA, U(60), IP2, NoPriority) }

ConcUpdates ==
  { [NoUpdates EXCEPT !.TTL = <<U(60)>>],
    [NoUpdates EXCEPT !.Data = <<IP2>>] }

InitConc ==
  /\ InitStore
  /\ arg = NoArg
  /\ res = FALSE

NextConc ==
  \E p \in Clients :
  \/ pc[p] = "idle" /\ \E record \in ConcCreates : CreateRecord(p, AllowedZones[1], record)
  \/ pc[p] = "idle" /\ \E u \in ConcUpdates :
       UpdateRecord(p, AllowedZones[1], NameAbs, RecordTypeA, u)
  \/ ZoneBegin(p)
  \/ ZoneUnset(p)
  \/ ZoneSet(p)
  \/ ZoneCommit(p)
  \/ ZoneAbort(p)

SpecConc == InitConc /\ [][NextConc]_vars

\* this step is the zone-commit of p's call and it succeeds
CommitsNow(p) == pc[p] = "commit" /\ pc'[p] = "done" /\ ret'[p].err = Nil

\* the zone holds the record p's call has written
HoldsDataOf(p) ==
  \E r \in ZoneNow(p) :
    /\ r.Name = AbsName(loc[p].record.Name, normalizeZoneName(call[p].zone))
    /\ r.Type = loc[p].record.Type
    /\ r.TTL = loc[p].record.TTL
    /\ r.Data = loc[p].record.Data

\* C17: when CreateRecord and UpdateRecord calls for the same name and type
\* run at the same time, every zone-commit that succeeds leaves the zone
\* holding the record of the call that issued it, and no other step changes
\* the zone: after the calls have returned the zone holds the data of the call
\* whose zone-commit completed last.
C17_LastCommitWins ==
  [][/\ \A p \in Clients : CommitsNow(p) => HoldsDataOf(p)'
     /\ (\A p \in Clients : ~CommitsNow(p)) => zoneData' = zoneData]_vars

\* both calls found no record with their values, overlapped, wrote different
\* data and returned success
C17_Witness ==
  /\ \A p \in Clients :
       /\ Done(p, "CreateRecord")
       /\ ret[p].err = Nil
       /\ loc[p].existingRecord = <<>>
       /\ "zone-commit" \in Issued(p)
       /\ HoldsDataOf(p)
  /\ loc[1].record.Data # loc[2].record.Data


(***************************************************************************)
(* The HTTP router: the global middleware, the /health route and the       *)
(* /api/v1 group behind AuthMiddleware                                     *)
(***************************************************************************)
TrimPrefix(s, prefix) ==
  IF HasPrefix(s, prefix) THEN SubSeq(s, Len(prefix) + 1, Len(s)) ELSE s

Bearer == <<"B", "e", "a", "r", "e", "r", " ">>

\* the key AuthMiddleware reads from the Authorization header whatever
\* X-API-Key holds
RequestAPIKey_BearerFirst(xAPIKey, authHeader) ==
  IF HasPrefix(authHeader, Bearer) THEN TrimPrefix(authHeader, Bearer) ELSE xAPIKey

\* the key AuthMiddleware reads from the request: X-API-Key, and the Bearer
\* token of Authorization when X-API-Key is empty
RequestAPIKey(xAPIKey, authHeader) ==
  IF xAPIKey = <<>>
  THEN IF HasPrefix(authHeader, Bearer) THEN TrimPrefix(authHeader, Bearer) ELSE <<>>
  ELSE xAPIKey

\* AuthMiddleware: "next" when the request goes on to the handler, and the
\* status it aborts with otherwise
AuthMiddleware(apiKeys, enabled, xAPIKey, authHeader) ==
  IF ~enabled THEN "next"
  ELSE IF Len(apiKeys) = 0 THEN "StatusInternalServerError"
  ELSE IF RequestAPIKey(xAPIKey, authHeader) = <<>> THEN "StatusUnauthorized"
  ELSE IF \E i \in 1..Len(apiKeys) : RequestAPIKey(xAPIKey, authHeader) = apiKeys[i]
       THEN "next"
       ELSE "StatusUnauthorized"

\* CORSMiddleware answers every OPTIONS request itself
CORSMiddleware(method) == IF method = "OPTIONS" THEN "StatusNoContent" ELSE "next"

maxRequests == 100

RateLimitMiddleware_OffByOne(n) ==
  IF n > maxRequests THEN "StatusTooManyRequests" ELSE "next"

\* RateLimitMiddleware for a client with n requests in the last minute
RateLimitMiddleware(n) == IF n >= maxRequests THEN "StatusTooManyRequests" ELSE "next"

\* the routes of SetupRoutes: path segments, method, whether the route is in
\* the /api/v1 group, and the handler
Route(method, path, api, handler) ==
  [method |-> method, path |-> path, api |-> api, handler |-> handler]

Routes ==
  { Route("GET", <<"health">>, FALSE, "HealthCheck"),
    Route("GET", <<"api", "v1", "zones">>, TRUE, "GetZones"),
    Route("POST", <<"api", "v1", "zones", ":zone", "records">>, TRUE, "CreateRecord"),
    Route("GET", <<"api", "v1", "docs">>, TRUE, "docs") }

NoHandler == "none"

Answer(status, handler, n) == [status |-> status, handler |-> handler, requests |-> n]

\* the route of a request that has passed the global middleware
Dispatch(cfg, req, route) ==
  IF route.api /\ AuthMiddleware(cfg.APIKeys, cfg.Enabled, req.XAPIKey, req.Authorization) # "next"
  THEN Answer(AuthMiddleware(cfg.APIKeys, cfg.Enabled, req.XAPIKey, req.Authorization),
              NoHandler, req.requests + 1)
  ELSE Answer("handled", route.handler, req.requests + 1)

Matching(req) == {route \in Routes : route.method = req.method /\ route.path = req.path}

\* one request through the engine
ServeHTTP(cfg, req) ==
  IF CORSMiddleware(req.method) # "next"
  THEN Answer(CORSMiddleware(req.method), NoHandler, req.requests)
  ELSE IF RateLimitMiddleware(req.requests) # "next"
  THEN Answer(RateLimitMiddleware(req.requests), NoHandler, req.requests)
  ELSE IF Matching(req) = {} THEN Answer("StatusNotFound", NoHandler, req.requests + 1)
  ELSE Dispatch(cfg, req, CHOOSE route \in Matching(req) : TRUE)

Key1 == <<"k">>
Key2 == <<"q">>
Key3 == <<"x">>

AuthConfigs ==
  { [Enabled |-> e, APIKeys |-> ks] :
      e \in BOOLEAN, ks \in { <<>>, <<Key1>>, <<Key1, Key2>>, << <<>> >> } }

Requests ==
  { [method |-> r.method, path |-> r.path, XAPIKey |-> x, Authorization |-> a,
     requests |-> n] :
      r \in Routes \cup {Route("OPTIONS", <<"api", "v1", "zones">>, TRUE, NoHandler)},
      x \in {<<>>, Key1, Key3},
      a \in {<<>>, Bearer \o Key1, Bearer \o Key2, Bearer \o Key3, Bearer, Key1},
      n \in {0, maxRequests} }

InitAuth == InitIdle(AuthConfigs \X Requests)

ApplyServeHTTP ==
  /\ res = NoRes
  /\ res' = <<ServeHTTP(arg[1], arg[2])>>
  /\ UNCHANGED <<arg, storeVars>>

SpecAuth == InitAuth /\ [][ApplyServeHTTP]_vars

\* the request carries k as its API key
CarriesKey(req, k) ==
  \/ req.XAPIKey = k /\ k # <<>>
  \/ req.XAPIKey = <<>> /\ req.Authorization = Bearer \o k /\ k # <<>>

InApiV1(req) == HasPrefix(req.path, <<"api", "v1">>)

ApiHandlers == {route.handler : route \in {r \in Routes : r.api}}

\* C18: with authentication enabled, a request to an /api/v1 route reaches
\* its handler only if it carries, in X-API-Key or as the Bearer token of
\* Authorization when X-API-Key is empty, one of the configured keys; with no
\* keys configured no such request reaches a handler; and a GET /health
\* within the rate limit reaches HealthCheck whatever key it carries.
C18_ApiNeedsConfiguredKey ==
  res # NoRes =>
    /\ (arg[1].Enabled /\ InApiV1(arg[2]) /\ res[1].handler # NoHandler) =>
         \E i \in 1..Len(arg[1].APIKeys) : CarriesKey(arg[2], arg[1].APIKeys[i])
    /\ (arg[1].Enabled /\ InApiV1(arg[2]) /\ arg[1].APIKeys = <<>>) =>
         res[1].handler = NoHandler
    /\ res[1].handler \in ApiHandlers => InApiV1(arg[2])
    /\ (arg[2].path = <<"health">> /\ arg[2].method = "GET"
          /\ arg[2].requests < maxRequests) =>
         res[1].handler = "HealthCheck"

\* a request with an empty X-API-Key and a configured key as its Bearer token
\* has reached its handler, with authentication enabled
C18_Witness ==
  /\ res # NoRes
  /\ arg[1].Enabled
  /\ InApiV1(arg[2])
  /\ arg[2].XAPIKey = <<>>
  /\ arg[2].Authorization = Bearer \o Key2
  /\ res[1].handler = "CreateRecord"


(***************************************************************************)
(* The commands of a successful UpdateRecord and DeleteRecord              *)
(***************************************************************************)
CmdNames(p) == [i \in 1..Len(cmds[p]) |-> cmds[p][i].cmd]

\* the positions, in the zone as the call found it, of the records with the
\* name and type the call asks for
Held(p) ==
  {i \in 1..Len(pre[p][normalizeZoneName(call[p].zone)]) :
     /\ pre[p][normalizeZoneName(call[p].zone)][i].Name = call[p].name
     /\ pre[p][normalizeZoneName(call[p].zone)][i].Type = call[p].type}

\* the first of them: the record the call's zone-read finds
Existing(p) ==
  pre[p][normalizeZoneName(call[p].zone)][CHOOSE i \in Held(p) : \A j \in Held(p) : i <= j]

\* name, TTL, type, priority of an MX record, and data, separated by spaces
LineOf(r) ==
  r.Name \o <<" ">> \o FormatUint(r.TTL) \o <<" ">> \o r.Type \o <<" ">>
    \o (IF r.Type = RecordTypeMX THEN FormatUint(r.Priority[1]) \o <<" ">> ELSE <<>>)
    \o r.Data

\* the record UpdateRecord writes: the existing one with the delta applied,
\* then validated
Merged(p) ==
  Validate([Existing(p) EXCEPT
              !.TTL = IF call[p].updates.TTL = <<>> THEN @ ELSE call[p].updates.TTL[1],
              !.Data = IF call[p].updates.Data = <<>> THEN @ ELSE call[p].updates.Data[1],
              !.Priority = IF call[p].updates.Priority = <<>> THEN @
                           ELSE call[p].updates.Priority]).rec

\* C19: an UpdateRecord that has returned success has issued, after its
\* zone-read, exactly zone-begin, zone-unset with the line of the existing
\* record as it was before the delta was applied, zone-set with the merged and
\* validated record, and zone-commit, in this order.
C19_UpdateIssuesBeginUnsetSetCommit ==
  \A p \in Procs :
    (Done(p, "UpdateRecord") /\ ret[p].err = Nil)
    => /\ CmdNames(p) = <<"zone-read", "zone-begin", "zone-unset", "zone-set", "zone-commit">>
       /\ AllOk(p)
       /\ cmds[p][2].args = <<normalizeZoneName(call[p].zone)>>
       /\ cmds[p][3].args = <<normalizeZoneName(call[p].zone), LineOf(Existing(p))>>
       /\ CarriesFields(cmds[p][4].args, Merged(p))
       /\ AbsName(cmds[p][4].args[2], cmds[p][4].args[1]) = Existing(p).Name
       /\ cmds[p][5].args = <<normalizeZoneName(call[p].zone)>>

\* an UpdateRecord that changes the data of the first of two records has
\* returned success: its zone-unset names the old data, its zone-set the new
C19_Witness ==
  \E p \in Procs :
    /\ Done(p, "UpdateRecord")
    /\ ret[p].err = Nil
    /\ call[p].updates.Data = <<IP2>>
    /\ Existing(p).Data = IP1
    /\ Len(cmds[p]) = 5
    /\ cmds[p][3].args[2] = LineOf(Existing(p))
    /\ cmds[p][3].args[2] # LineOf(Merged(p))
    /\ cmds[p][4].args[5] = IP2


\* the zone-unset of a DeleteRecord call p has failed
UnsetFailed(p) == Len(cmds[p]) >= 3 /\ FailedAt(p, 3, {"zone-unset"})

\* C20: a DeleteRecord that has returned success has issued, after its
\* zone-read, exactly zone-begin, zone-unset with the match "<name> <type>"
\* and zone-commit, in this order; a DeleteRecord whose zone-unset failed has
\* issued zone-abort next and nothing after it, and has returned the error of
\* the zone-unset.
C20_DeleteIssuesBeginUnsetCommit ==
  \A p \in Procs :
    Done(p, "DeleteRecord")
    => /\ ret[p].err = Nil
            => /\ CmdNames(p) = <<"zone-read", "zone-begin", "zone-unset", "zone-commit">>
               /\ AllOk(p)
               /\ \A i \in 2..4 : normalizeZoneName(cmds[p][i].args[1])
                                    = normalizeZoneName(call[p].zone)
               /\ Len(cmds[p][3].args) = 2
               /\ cmds[p][3].args[2] = call[p].name \o <<" ">> \o call[p].type
       /\ UnsetFailed(p)
            => /\ CmdNames(p) = <<"zone-read", "zone-begin", "zone-unset", "zone-abort">>
               /\ cmds[p][3].args[2] = call[p].name \o <<" ">> \o call[p].type
               /\ ret[p].err = <<"failed to remove record from zone", KnotcFailed>>

\* a DeleteRecord of a record the zone held has issued its three commands,
\* returned success, and the zone no longer holds a record of that name and
\* type
C20_Witness ==
  \E p \in Procs :
    /\ Done(p, "DeleteRecord")
    /\ ret[p].err = Nil
    /\ Len(cmds[p]) = 4
    /\ cmds[p][3].args[2] = <<"a", ".", "e", ".", " ", "A">>
    /\ Held(p) # {}
    /\ \A r \in ZoneNow(p) : ~(r.Name = call[p].name /\ r.Type = call[p].type)


(***************************************************************************)
(* The HTTP status the handlers answer with for an error of the client     *)
(***************************************************************************)
\* strings.Contains(err.Error(), s), the error being the chain of its messages
ErrorContains(err, s) == \E i \in 1..Len(err) : err[i] = s

\* Handler.GetRecord, Handler.UpdateRecord and Handler.DeleteRecord
HandlerStatus(err) ==
  IF err = Nil THEN "StatusOK"
  ELSE IF ErrorContains(err, "zone not allowed") THEN "StatusForbidden"
  ELSE IF ErrorContains(err, "record not found") THEN "StatusNotFound"
  ELSE "StatusInternalServerError"

\* the zone-read of call p failed
ReadFailed(p) == Len(cmds[p]) >= 1 /\ FailedAt(p, 1, {"zone-read"})

\* C21: an UpdateRecord or DeleteRecord is answered with NotFound (404) only
\* when its zone-read succeeded and the zone held no record of the requested
\* name and type; when the zone-read failed it is answered with a
\* control-plane error (500).
C21_NotFoundOnlyWhenAbsent ==
  \A p \in Procs :
    (pc[p] = "done" /\ call[p].op \in {"UpdateRecord", "DeleteRecord"})
    => /\ HandlerStatus(ret[p].err) = "StatusNotFound"
            => (cmds[p] # <<>> /\ cmds[p][1].ok /\ Held(p) = {})
       /\ ReadFailed(p) => HandlerStatus(ret[p].err) = "StatusInternalServerError"


\* C22: a GetRecord on an allowed zone issues one zone-read and no other
\* command; when the read succeeded it returns the first record, in the order
\* of the zone's records, whose name and type equal the arguments, and it
\* returns "record not found" exactly when the read succeeded and the zone
\* holds no such record.
C22_GetRecordReturnsFirstMatch ==
  \A p \in Procs :
    (Done(p, "GetRecord") /\ IsZoneAllowed(AllowedZones, call[p].zone))
    => /\ CmdNames(p) = <<"zone-read">>
       /\ cmds[p][1].args = <<normalizeZoneName(call[p].zone)>>
       /\ (cmds[p][1].ok /\ Held(p) # {})
            => (ret[p].err = Nil /\ ret[p].val = <<Existing(p)>>)
       /\ ErrorContains(ret[p].err, "record not found")
            <=> (cmds[p][1].ok /\ Held(p) = {})
       /\ zoneData = pre[p]

\* a GetRecord for a name and type of which the zone holds two records has
\* returned the first of them
C22_Witness ==
  \E p \in Procs :
    /\ Done(p, "GetRecord")
    /\ Cardinality(Held(p)) = 2
    /\ ret[p].err = Nil
    /\ ret[p].val[1].Data = IP1
    /\ pre[p][ZoneE][2].Data = IP2


QuoteDelimited(d) == Len(d) >= 2 /\ d[1] = Quote /\ d[Len(d)] = Quote

\* the rule of section 4.2 for the data of a record of each type
DataRule(r) ==
  CASE r.Type = RecordTypeA -> IsIPv4(r.Data)
    [] r.Type = RecordTypeAAAA -> Contains(r.Data, ":") /\ ParseIP(r.Data) = "v6"
    [] r.Type \in {RecordTypePTR, RecordTypeCNAME, RecordTypeNS} -> EndsWithDot(r.Data)
    [] r.Type = RecordTypeMX -> r.Priority # NoPriority /\ EndsWithDot(r.Data)
    [] r.Type = RecordTypeTXT -> QuoteDelimited(r.Data)
    [] OTHER -> FALSE

\* C23: a record on which Validate has succeeded has a non-empty name, a type
\* that is one of A, AAAA, PTR, CNAME, MX, TXT, NS, a non-zero TTL, and data
\* that satisfies the rule of its type.
C23_ValidatedRecordWellFormed ==
  (res # NoRes /\ res[1].ok) =>
    /\ res[1].rec.Name # <<>>
    /\ res[1].rec.Type \in Range(ValidRecordTypes)
    /\ res[1].rec.TTL # U(0)
    /\ DataRule(res[1].rec)


\* the zone-set commands of a CreateRecord call
CreateSets(p) ==
  IF call[p].op = "CreateRecord"
  THEN {i \in 1..Len(cmds[p]) : cmds[p][i].cmd = "zone-set"}
  ELSE {}

\* C24: the record a CreateRecord call has validated carries TTL 300 when the
\* given TTL is 0 and the given TTL otherwise, and the zone-set of the call
\* carries that TTL, never 0.
C24_ZeroTTLDefaultsTo300 ==
  \A p \in Procs : \A i \in CreateSets(p) :
    /\ loc[p].record.TTL = IF call[p].record.TTL = U(0) THEN U(300) ELSE call[p].record.TTL
    /\ cmds[p][i].args[3] = FormatUint(loc[p].record.TTL)
    /\ cmds[p][i].args[3] # <<"0">>

\* a CreateRecord given TTL 0 has issued its zone-set with TTL 300, and one
\* given TTL 60 with 60
C24_Witness ==
  \E p \in Procs : \E i \in CreateSets(p) :
    /\ call[p].record.TTL = U(0)
    /\ cmds[p][i].args[3] = <<"3", "0", "0">>
    /\ cmds[p][i].ok
    /\ prev[p].record.TTL = U(60)


\* C25: Validate accepts a named A record exactly when its data is a
\* dotted-decimal IPv4 address, and a named AAAA record exactly when its data
\* is an IPv6 address that is not in v4-mapped form.
C25_AddressFamily ==
  (res # NoRes /\ arg.Name # <<>>) =>
    /\ arg.Type = RecordTypeA => (res[1].ok <=> IsIPv4(arg.Data))
    /\ arg.Type = RecordTypeAAAA =>
         (res[1].ok <=> (Contains(arg.Data, ":") /\ ParseIP(arg.Data) = "v6"))


(***************************************************************************)
(* ParseKnotRecord applied to lines built from their tokens                *)
(***************************************************************************)
Classes == {ClassIN, <<"C", "H">>, <<"H", "S">>}

MaxUint32Text == <<"4", "2", "9", "4", "9", "6", "7", "2", "9", "5">>

TTLTokens ==
  { TTL300, <<"x">>, <<"-", "1">>, <<"0", "0", "7">>, MaxUint32Text,
    <<"4", "2", "9", "4", "9", "6", "7", "2", "9", "6">> }

\* the tokens after the type
RestTokens ==
  { <<>>, <<IP1>>, <<QuotedText, QuotedText>>, << <<"1", "0">> >>,
    << <<"1", "0">>, MailHost >>, << <<"6", "5", "5", "3", "5">>, MailHost >>,
    << <<"6", "5", "5", "3", "6">>, MailHost >>, << <<"x">>, MailHost >>,
    << <<"1", "0">>, MailHost, <<"x">> >> }

ParseInputs ==
  { [codec |-> codec, prefix |-> prefix, sep |-> sep,
     tokens |-> <<NameAbs, ttl>> \o class \o <<type>> \o rest] :
      codec \in Codecs,
      prefix \in {<<>>, <<"[", "e", ".", "]", " ">>},
      sep \in {Sp, Sp \o Sp},
      ttl \in TTLTokens,
      class \in {<<>>, <<ClassIN>>, << <<"C", "H">> >>, << <<"i", "n">> >>},
      type \in {RecordTypeA, RecordTypeTXT, RecordTypeMX},
      rest \in RestTokens }

LineOfTokens(a) == a.prefix \o Join(a.tokens, a.sep)

InitParse == InitIdle(ParseInputs)

ApplyParse ==
  /\ res = NoRes
  /\ res' = <<Parse(arg.codec, LineOfTokens(arg))>>
  /\ UNCHANGED <<arg, storeVars>>

SpecParse == InitParse /\ [][ApplyParse]_vars

\* a is a string of decimal digits and b one of the same length that is not
\* smaller
DigitsLE(a, b) ==
  \/ a = b
  \/ \E i \in 1..Len(a) :
       /\ \A j \in 1..(i - 1) : a[j] = b[j]
       /\ DigitVal(a[i]) < DigitVal(b[i])

\* the decimal digits of tok without leading zeros
Canonical(tok) ==
  IF TrimLeftChar(tok, "0") = <<>> THEN <<"0">> ELSE TrimLeftChar(tok, "0")

\* tok is a decimal integer not above the one max writes
DecimalUpTo(tok, max) ==
  /\ tok # <<>>
  /\ \A i \in 1..Len(tok) : IsDigit(tok[i])
  /\ \/ Len(Canonical(tok)) < Len(max)
     \/ Len(Canonical(tok)) = Len(max) /\ DigitsLE(Canonical(tok), max)

ValidTTLToken(tok) == DecimalUpTo(tok, MaxUint32Text)

ValidPriorityToken(tok) == DecimalUpTo(tok, <<"6", "5", "5", "3", "5">>)

\* where the claim puts the type: after the class token when the third token
\* is one
TypeIndex(t) == IF t[3] \in Classes THEN 4 ELSE 3

TokenAt(t, i) == IF i <= Len(t) THEN t[i] ELSE <<>>

\* C26: Parse fails on a line of fewer than 4 tokens; on a line of at least 4
\* tokens with a valid TTL and a type other than MX, with or without a [zone]
\* prefix, it succeeds, the name is the first token, the type is the fourth
\* token when the third is IN, CH or HS and the third otherwise, and the data
\* is the tokens after the type joined by single spaces.
C26_ParseTokenWindow ==
  res # NoRes =>
    /\ Len(arg.tokens) < 4 => ~res[1].ok
    /\ (/\ Len(arg.tokens) >= 4
        /\ ValidTTLToken(arg.tokens[2])
        /\ TokenAt(arg.tokens, TypeIndex(arg.tokens)) # RecordTypeMX)
       => /\ res[1].ok
          /\ res[1].rec.Name = arg.tokens[1]
          /\ res[1].rec.Type = TokenAt(arg.tokens, TypeIndex(arg.tokens))
          /\ res[1].rec.Data =
               Join(SubSeq(arg.tokens, TypeIndex(arg.tokens) + 1, Len(arg.tokens)), Sp)


\* the line is written the way the parser of that name reads lines: the plain
\* one knows neither the prefix nor the class token
Reads(a) ==
  \/ a.codec = "class"
  \/ a.prefix = <<>> /\ (Len(a.tokens) >= 3 => a.tokens[3] \notin Classes)

\* the type is MX, at the place the parser looks for it
MXLine(t) ==
  /\ Len(t) >= 4
  /\ ValidTTLToken(t[2])
  /\ (t[3] \in Classes => Len(t) >= 5)
  /\ t[TypeIndex(t)] = RecordTypeMX

\* C27: on an MX line, Parse succeeds exactly when the token after the type is
\* a decimal number of at most 65535 and a data token follows it; that token
\* is then the priority and the tokens after it, joined by single spaces, are
\* the data.
C27_MXPriorityToken ==
  (res # NoRes /\ Reads(arg) /\ MXLine(arg.tokens)) =>
    /\ res[1].ok <=> /\ Len(arg.tokens) >= TypeIndex(arg.tokens) + 2
                     /\ ValidPriorityToken(arg.tokens[TypeIndex(arg.tokens) + 1])
    /\ res[1].ok =>
         /\ res[1].rec.Type = RecordTypeMX
         /\ res[1].rec.Priority # NoPriority
         /\ FormatUint(res[1].rec.Priority[1])
              = Canonical(arg.tokens[TypeIndex(arg.tokens) + 1])
         /\ res[1].rec.Data =
              Join(SubSeq(arg.tokens, TypeIndex(arg.tokens) + 2, Len(arg.tokens)), Sp)


\* C28: on a line of at least 4 tokens that is not an MX line and whose second
\* token the parser reads as the TTL, Parse succeeds exactly when that token
\* is a decimal integer between 0 and 4294967295, and the TTL of the record is
\* then the value the token writes: 4294967296 is rejected, not wrapped.
C28_TTLRange ==
  (/\ res # NoRes
   /\ arg.codec = "class" \/ arg.prefix = <<>>
   /\ Len(arg.tokens) >= 4
   /\ \A i \in 1..Len(arg.tokens) : arg.tokens[i] # RecordTypeMX)
  => /\ res[1].ok <=> ValidTTLToken(arg.tokens[2])
     /\ res[1].ok => FormatUint(res[1].rec.TTL) = Canonical(arg.tokens[2])

\* a line whose TTL token is 4294967295 has been parsed
C28_Witness ==
  /\ res # NoRes
  /\ res[1].ok
  /\ arg.tokens[2] = MaxUint32Text
  /\ arg.tokens[3] = RecordTypeA
  /\ FormatUint(res[1].rec.TTL) = MaxUint32Text


(***************************************************************************)
(* Two request handlers making one mutating call each on the same zone     *)
(***************************************************************************)
NextMut ==
  \E p \in Clients :
  \/ pc[p] = "idle" /\ \E record \in ConcCreates : CreateRecord(p, AllowedZones[1], record)
  \/ pc[p] = "idle" /\ \E u \in ConcUpdates :
       UpdateRecord(p, AllowedZones[1], NameAbs, RecordTypeA, u)
  \/ pc[p] = "idle" /\ DeleteRecord(p, AllowedZones[1], NameAbs, RecordTypeA)
  \/ ZoneBegin(p)
  \/ ZoneUnset(p)
  \/ ZoneSet(p)
  \/ ZoneCommit(p)
  \/ ZoneAbort(p)

SpecMut == InitConc /\ [][NextMut]_vars

\* p's call has opened a transaction with a zone-begin and has not ended it
\* with a zone-commit or zone-abort
HoldsTxn(p) ==
  \E i \in 1..Len(cmds[p]) :
    /\ cmds[p][i].cmd = "zone-begin"
    /\ cmds[p][i].ok
    /\ \A j \in (i + 1)..Len(cmds[p]) :
         ~(cmds[p][j].cmd \in {"zone-commit", "zone-abort"} /\ cmds[p][j].ok)

\* this step is a command of p's call, other than zone-begin, that the server
\* carried out on the transaction
ActsOnTxn(p) ==
  /\ Len(cmds'[p]) = Len(cmds[p]) + 1
  /\ cmds'[p][Len(cmds'[p])].ok
  /\ cmds'[p][Len(cmds'[p])].cmd \in {"zone-set", "zone-unset", "zone-commit", "zone-abort"}

\* the committed zone shows what p's call was to do
OwnChange(p) ==
  IF call[p].op = "DeleteRecord"
  THEN \A r \in ZoneNow(p) : ~(r.Name = call[p].name /\ r.Type = call[p].type)
  ELSE HoldsDataOf(p)

\* C29: under every interleaving of two mutating calls on one zone, a command
\* that changes, commits or discards a transaction is issued by the call that
\* opened that transaction while no other call has one open, so that no
\* zone-commit or zone-abort commits or discards commands of the other call;
\* and when the zone-commit of a call succeeds the committed zone holds that
\* call's own change.
C29_CallsDoNotShareTransactions ==
  [][\A p \in Clients :
       /\ ActsOnTxn(p) => (HoldsTxn(p) /\ \A q \in Clients \ {p} : ~HoldsTxn(q))
       /\ CommitsNow(p) => OwnChange(p)']_vars

\* a DeleteRecord and a CreateRecord that both read the zone before either
\* wrote have both returned success, one transaction after the other
C29_Witness ==
  \E p, q \in Clients :
    /\ Done(p, "DeleteRecord") /\ ret[p].err = Nil
    /\ Done(q, "CreateRecord") /\ ret[q].err = Nil
    /\ "zone-commit" \in Issued(q)
    /\ pre[p] = pre[q]
    /\ HoldsDataOf(q)


(***************************************************************************)
(* Two request handlers working on different zones: the first on e, the    *)
(* second on its subdomain zone b.e                                        *)
(***************************************************************************)
ZoneOfClient(p) == IF p = 1 THEN AllowedZones[1] ELSE <<"b", ".", "e">>

RecordOfClient(p) ==
  IF p = 1 THEN DNSRecord(NameAbs, RecordTypeA, U(60), IP2, NoPriority)
  ELSE DNSRecord(<<"a">>, RecordTypeA, U(60), IP2, NoPriority)

NextTwoZones ==
  \E p \in Clients :
  \/ pc[p] = "idle" /\ CreateRecord(p, ZoneOfClient(p), RecordOfClient(p))
  \/ pc[p] = "idle" /\ \E u \in ConcUpdates :
       UpdateRecord(p, ZoneOfClient(p), NameAbs, RecordTypeA, u)
  \/ pc[p] = "idle" /\ DeleteRecord(p, ZoneOfClient(p), NameAbs, RecordTypeA)
  \/ pc[p] = "idle" /\ GetRecords(p, ZoneOfClient(p))
  \/ pc[p] = "idle" /\ ReloadZone(p, ZoneOfClient(p))
  \/ ZoneBegin(p)
  \/ ZoneUnset(p)
  \/ ZoneSet(p)
  \/ ZoneCommit(p)
  \/ ZoneAbort(p)

SpecTwoZones == InitConc /\ [][NextTwoZones]_vars

\* this step is a command of p's call
Issues(p) == Len(cmds'[p]) = Len(cmds[p]) + 1 \/ (cmds[p] = <<>> /\ cmds'[p] # <<>>)

\* C30: every command a call on zone Z issues names Z, and the step leaves the
\* records and the transaction of every other zone as they were, whatever the
\* other handler is doing on its own zone.
C30_CommandsNameTheZone ==
  [][\A p \in Clients :
       Issues(p) =>
         /\ normalizeZoneName(cmds'[p][Len(cmds'[p])].args[1])
              = normalizeZoneName(call'[p].zone)
         /\ \A z \in KnotZones \ {normalizeZoneName(call'[p].zone)} :
              zoneData'[z] = zoneData[z] /\ txn'[z] = txn[z]]_vars

\* the second handler has created its record in zone b.e while the first
\* handler's transaction on zone e is open
C30_Witness ==
  /\ Done(2, "CreateRecord")
  /\ ret[2].err = Nil
  /\ zoneData[ZoneBE] # <<>>
  /\ pc[1] \in {"set", "unset", "commit"}
  /\ txn[ZoneE] # NoTxn
  /\ txn[ZoneBE] = NoTxn


(***************************************************************************)
(* Mutating calls on a zone that starts with one record per name and type  *)
(***************************************************************************)
\* no two records of the list have the same name and type
OnePerNameType(recs) ==
  \A i, j \in 1..Len(recs) :
    (recs[i].Name = recs[j].Name /\ recs[i].Type = recs[j].Type) => i = j

InitUnique ==
  /\ InitConc
  /\ \A z \in KnotZones : OnePerNameType(zoneData[z])

SpecUnique == InitUnique /\ [][NextMut]_vars

\* C31: when every zone starts with at most one record per name and type,
\* the committed zone holds at most one record per name and type after any
\* interleaving of CreateRecord, UpdateRecord and DeleteRecord calls.
C31_OneRecordPerNameType ==
  \A z \in KnotZones : OnePerNameType(zoneData[z])


(***************************************************************************)
(* RateLimitMiddleware: the clients map and the handlers that share it     *)
(***************************************************************************)
knotVars == <<zoneData, txn, pc, call, loc, cmds, ret, prev, pre, ncalls>>

\* time.Minute, in ticks of the clock
timeWindow == 2

MaxClock == 3

MaxServed == 3

\* n requests recorded at time t
Times(n, t) == [i \in 1..n |-> t]

\* the loop over requests: those made less than timeWindow before now
ValidRequests(requests, now) ==
  SelectSeq(requests, LAMBDA reqTime : now - reqTime < timeWindow)

\* clients[clientIP] after the clean-up of a request made at the clock's time
Kept(ip) ==
  IF clients[ip] # <<>> THEN ValidRequests(clients[ip], clock) ELSE clients[ip]

Answered(ip, now, requests, status) ==
  [pc |-> "done", clientIP |-> ip, now |-> now, requests |-> requests, status |-> status]

\* one request, handled from beginning to end with no other request in between
RateLimit(p, ip) ==
  /\ served < MaxServed
  /\ inflight[p].pc \in {"idle", "done"}
  /\ served' = served + 1
  /\ clients' = [clients EXCEPT
       ![ip] = IF RateLimitMiddleware(Len(Kept(ip))) = "next"
               THEN Append(Kept(ip), clock) ELSE Kept(ip)]
  /\ inflight' = [inflight EXCEPT
       ![p] = Answered(ip, clock, Kept(ip), RateLimitMiddleware(Len(Kept(ip))))]
  /\ UNCHANGED <<clock, knotVars, arg, res>>

Tick ==
  /\ clock < MaxClock
  /\ clock' = clock + 1
  /\ UNCHANGED <<clients, inflight, served, knotVars, arg, res>>

\* the map when the clock is at 1: nothing, or a client that made one request
\* short of the limit, or as many as the limit, at time 0
InitLimiter(counts) ==
  /\ InitKnot
  /\ zoneData[ZoneE] = <<>>
  /\ arg = NoArg
  /\ res = NoRes
  /\ clients \in {[ip \in ClientIPs |-> IF ip = "10.0.0.1" THEN Times(n, 0) ELSE <<>>] :
                    n \in counts}
  /\ clock = 1
  /\ inflight = [p \in Clients |-> NoRequest]
  /\ served = 0

InitRateLimit == InitLimiter({0, maxRequests - 1, maxRequests})

NextRateLimit == Tick \/ \E ip \in ClientIPs : RateLimit(1, ip)

SpecRateLimit == InitRateLimit /\ [][NextRateLimit]_vars

\* the handler's steps on the shared map, for handlers that run concurrently:
\* reading the clock and clients[clientIP]
Enter(p, ip) ==
  /\ inflight[p].pc = "idle"
  /\ inflight' = [inflight EXCEPT
       ![p] = [pc |-> IF clients[ip] # <<>> THEN "filter" ELSE "check",
               clientIP |-> ip, now |-> clock, requests |-> clients[ip],
               status |-> <<>>]]
  /\ served' = served + 1
  /\ UNCHANGED <<clients, clock, knotVars, arg, res>>

\* clients[clientIP] = validRequests
Filter(p) ==
  /\ inflight[p].pc = "filter"
  /\ clients' = [clients EXCEPT
       ![inflight[p].clientIP] = ValidRequests(inflight[p].requests, inflight[p].now)]
  /\ inflight' = [inflight EXCEPT ![p].pc = "check"]
  /\ UNCHANGED <<clock, served, knotVars, arg, res>>

\* if len(clients[clientIP]) >= maxRequests
Check(p) ==
  /\ inflight[p].pc = "check"
  /\ inflight' = [inflight EXCEPT
       ![p] = IF RateLimitMiddleware(Len(clients[inflight[p].clientIP])) = "next"
              THEN [inflight[p] EXCEPT !.pc = "read"]
              ELSE Answered(inflight[p].clientIP, inflight[p].now,
                            clients[inflight[p].clientIP],
                            RateLimitMiddleware(Len(clients[inflight[p].clientIP])))]
  /\ UNCHANGED <<clients, clock, served, knotVars, arg, res>>

\* append(clients[clientIP], now): the read of the map
Read(p) ==
  /\ inflight[p].pc = "read"
  /\ inflight' = [inflight EXCEPT
       ![p] = [inflight[p] EXCEPT !.pc = "write",
                                  !.requests = clients[inflight[p].clientIP]]]
  /\ UNCHANGED <<clients, clock, served, knotVars, arg, res>>

\* clients[clientIP] = append(...): the write to the map
Write(p) ==
  /\ inflight[p].pc = "write"
  /\ clients' = [clients EXCEPT
       ![inflight[p].clientIP] = Append(inflight[p].requests, inflight[p].now)]
  /\ inflight' = [inflight EXCEPT
       ![p] = Answered(inflight[p].clientIP, inflight[p].now,
                       inflight[p].requests, "next")]
  /\ UNCHANGED <<clock, served, knotVars, arg, res>>

InitRateLimitConc == InitLimiter({0, maxRequests - 1})

NextRateLimitConc ==
  \/ Tick
  \/ \E p \in Clients :
       \/ \E ip \in ClientIPs : Enter(p, ip)
       \/ Filter(p)
       \/ Check(p)
       \/ Read(p)
       \/ Write(p)

SpecRateLimitConc == InitRateLimitConc /\ [][NextRateLimitConc]_vars

\* how many of the times are at t, and how many are within the window at now
CountAt(times, t) == Cardinality({i \in 1..Len(times) : times[i] = t})

Recent(times, now) ==
  Cardinality({i \in 1..Len(times) : now - times[i] < timeWindow})

\* the handlers that have admitted a request of ip made at t
AdmittedAt(ip, t) ==
  {p \in Clients : /\ inflight[p].pc = "done"
                   /\ inflight[p].status = "next"
                   /\ inflight[p].clientIP = ip
                   /\ inflight[p].now = t}

\* C32: a request is admitted exactly when fewer than 100 requests of its
\* client IP are recorded within the minute before it; an admitted request is
\* recorded after the requests of that minute, a rejected one (429) is not
\* recorded, so the map never holds more than 100 requests of one client
\* within a minute, and no other client's requests are touched.
C32_AdmitsBelowLimit ==
  [][served' # served =>
       \A ip \in ClientIPs :
         IF ip # inflight'[1].clientIP THEN clients'[ip] = clients[ip]
         ELSE /\ inflight'[1].status = "next" <=> Recent(clients[ip], clock) < maxRequests
              /\ Recent(clients'[ip], clock) <= maxRequests
              /\ Len(clients'[ip]) = Recent(clients'[ip], clock)
              /\ inflight'[1].status = "next" =>
                   /\ Recent(clients'[ip], clock) = Recent(clients[ip], clock) + 1
                   /\ clients'[ip][Len(clients'[ip])] = clock
              /\ inflight'[1].status # "next" =>
                   /\ inflight'[1].status = "StatusTooManyRequests"
                   /\ Recent(clients'[ip], clock) = Recent(clients[ip], clock)
                   /\ CountAt(clients'[ip], clock) = CountAt(clients[ip], clock)]_vars

\* a request is rejected while 100 requests of its client are within the
\* minute, and the map still holds those 100 and no more
C32_Witness ==
  /\ inflight[1].pc = "done"
  /\ inflight[1].status = "StatusTooManyRequests"
  /\ Len(clients[inflight[1].clientIP]) = maxRequests
  /\ Recent(clients[inflight[1].clientIP], clock) = maxRequests

\* C33: with handlers running concurrently the map holds at most 100 requests
\* of one client within a minute, and every request admitted within the
\* minute is still recorded.
C33_ConcurrentLimit ==
  \A ip \in ClientIPs :
    /\ Recent(clients[ip], clock) <= maxRequests
    /\ \A t \in 1..clock :
         clock - t < timeWindow =>
           Cardinality(AdmittedAt(ip, t)) <= CountAt(clients[ip], t)


(***************************************************************************)
(* The calls that only read: GetZones, GetRecords, GetRecord, ReloadZone   *)
(* and CheckHealth                                                         *)
(***************************************************************************)
\* GetZones: conf-read zone, then the scan of its output
GetZonesReturn(p, r) == ReturnRead(p, r.err, r.zones)

GetZones(p) ==
  /\ CanCall(p)
  /\ StartCall(p, [NoCall EXCEPT !.op = "GetZones"])
  /\ \E ok \in BOOLEAN, out \in ConfOutputs :
       /\ executeKnotc(p, <<>>, Cmd("conf-read", <<"zone">>), ok)
       /\ GetZonesReturn(p, GetZonesResult(AllowedZones, ok, out))

\* CheckHealth: knotc status, run directly
CheckHealth(p) ==
  /\ CanCall(p)
  /\ StartCall(p, [NoCall EXCEPT !.op = "CheckHealth"])
  /\ \E ok \in BOOLEAN :
       /\ executeKnotc(p, <<>>, Cmd("status", <<>>), ok)
       /\ ReturnRead(p, IF ok THEN Nil ELSE <<"KnotDNS health check failed", KnotcFailed>>,
                     <<>>)

NextQueries ==
  \E p \in Procs :
  \/ GetZones(p)
  \/ \E zone \in ReqZones : GetRecords(p, zone)
  \/ \E zone \in ReqZones, t \in ReqTargets : GetRecord(p, zone, t[1], t[2])
  \/ \E zone \in ReqZones : ReloadZone(p, zone)
  \/ CheckHealth(p)

SpecQueries == Init /\ [][NextQueries]_vars

Queries == {"GetZones", "GetRecords", "GetRecord", "ReloadZone", "CheckHealth"}

\* C34: GetZones, GetRecords, GetRecord, ReloadZone and CheckHealth issue no
\* zone-begin, zone-set, zone-unset, zone-commit or zone-abort, open no
\* transaction and leave the zones as they were; a ReloadZone of an allowed
\* zone issues one zone-reload and nothing else.
C34_QueriesIssueNoTransaction ==
  \A p \in Procs :
    call[p].op \in Queries =>
      /\ Issued(p) \cap TxnCmds = {}
      /\ Len(cmds[p]) <= 1
      /\ zoneData = pre[p]
      /\ \A z \in KnotZones : txn[z] = NoTxn
      /\ (Done(p, "ReloadZone") /\ IsZoneAllowed(AllowedZones, call[p].zone)) =>
           /\ CmdNames(p) = <<"zone-reload">>
           /\ normalizeZoneName(cmds[p][1].args[1]) = normalizeZoneName(call[p].zone)
      /\ Done(p, "GetZones") => CmdNames(p) = <<"conf-read">>
      /\ Done(p, "CheckHealth") => CmdNames(p) = <<"status">>

\* an allowed zone has been reloaded after another query
C34_Witness ==
  /\ Done(1, "ReloadZone")
  /\ ncalls = 2
  /\ ret[1].err = Nil
  /\ cmds[1] = <<[cmd |-> "zone-reload", args |-> <<call[1].zone>>, ok |-> TRUE]>>

\* the error of a failed zone-begin
BeginError == <<"failed to begin transaction for zone", KnotcFailed>>

\* C35: a CreateRecord, UpdateRecord or DeleteRecord whose zone-begin fails
\* returns the begin error at once: the failed zone-begin is its last
\* command, and it has issued no zone-set, zone-unset, zone-commit or
\* zone-abort, whoever holds the open transaction of the zone.
C35_FailedBeginStops ==
  \A p \in Clients :
    \A i \in 1..Len(cmds[p]) :
      FailedAt(p, i, {"zone-begin"}) =>
        /\ call[p].op \in Mutating
        /\ i = Len(cmds[p])
        /\ pc[p] = "done"
        /\ ret[p].err = BeginError
        /\ Issued(p) \cap {"zone-set", "zone-unset", "zone-commit", "zone-abort"} = {}

\* an UpdateRecord's zone-begin has failed while the other call holds the
\* open transaction of the zone
C35_Witness ==
  \E p, q \in Clients :
    /\ p # q
    /\ Done(p, "UpdateRecord")
    /\ FailedAt(p, Len(cmds[p]), {"zone-begin"})
    /\ HoldsTxn(q)
    /\ txn[normalizeZoneName(call[p].zone)] # NoTxn

\* the record UpdateRecord validates again: the fetched one with the updates
MergedOk(p) ==
  Validate([Existing(p) EXCEPT
              !.TTL = IF call[p].updates.TTL = <<>> THEN @ ELSE call[p].updates.TTL[1],
              !.Data = IF call[p].updates.Data = <<>> THEN @ ELSE call[p].updates.Data[1],
              !.Priority = IF call[p].updates.Priority = <<>> THEN @
                           ELSE call[p].updates.Priority]).ok

\* C36: a CreateRecord on an allowed zone with a record that fails Validate
\* issues no command; an UpdateRecord whose fetched record with the updates
\* applied fails Validate issues only its zone-read; both return the
\* validation error and the zones are as they were.
C36_InvalidRecordMutatesNothing ==
  \A p \in Procs :
    /\ ( /\ Done(p, "CreateRecord")
         /\ IsZoneAllowed(AllowedZones, call[p].zone)
         /\ ~Validate(call[p].record).ok ) =>
           /\ cmds[p] = <<>>
           /\ ret[p].err = <<"invalid record">>
           /\ zoneData = pre[p]
    /\ ( /\ Done(p, "UpdateRecord")
         /\ IsZoneAllowed(AllowedZones, call[p].zone)
         /\ Len(cmds[p]) >= 1 /\ cmds[p][1].ok
         /\ Held(p) # {}
         /\ ~MergedOk(p) ) =>
           /\ CmdNames(p) = <<"zone-read">>
           /\ ret[p].err = <<"invalid updated record">>
           /\ zoneData = pre[p]

\* an UpdateRecord has returned the validation error of its merged record
C36_Witness ==
  /\ Done(1, "UpdateRecord")
  /\ Held(1) # {}
  /\ ~MergedOk(1)
  /\ ret[1].err = <<"invalid updated record">>
  /\ CmdNames(1) = <<"zone-read">>

\* C37: every command of a CreateRecord, UpdateRecord or DeleteRecord carries
\* the same zone argument, the requested zone in its trailing-dot form.
C37_CommandsCarryCanonicalZone ==
  \A p \in Procs :
    call[p].op \in Mutating =>
      \A i \in 1..Len(cmds[p]) :
        cmds[p][i].args[1] = normalizeZoneName(call[p].zone)

\* C39: a CreateRecord whose probing zone-read failed goes on to zone-begin;
\* it does not return the read error, and when its later commands succeed
\* it has issued zone-begin, zone-set and zone-commit and returns nil.
C39_ProbeFailureMeansAbsent ==
  \A p \in Procs :
    (call[p].op = "CreateRecord" /\ ReadFailed(p)) =>
      /\ pc[p] # "done" \/ Len(cmds[p]) >= 2
      /\ Len(cmds[p]) >= 2 => cmds[p][2].cmd = "zone-begin"
      /\ pc[p] = "done" => ret[p].err # <<"failed to read zone", KnotcFailed>>
      /\ (pc[p] = "done" /\ \A i \in 2..Len(cmds[p]) : cmds[p][i].ok) =>
           /\ CmdNames(p) = <<"zone-read", "zone-begin", "zone-set", "zone-commit">>
           /\ ret[p].err = Nil

\* a CreateRecord has committed its record after its probe failed
C39_Witness ==
  /\ Done(1, "CreateRecord")
  /\ ReadFailed(1)
  /\ ret[1].err = Nil
  /\ CmdNames(1) = <<"zone-read", "zone-begin", "zone-set", "zone-commit">>
  /\ zoneData # pre[1]


(***************************************************************************)
(* The owner CreateRecord and UpdateRecord pass to zone-set                *)
(***************************************************************************)
MaxLabels == 3

OwnerLabels == {<<"a">>, <<"e">>, <<"n", "e">>}

\* record names of up to MaxLabels labels, with and without the final dot
OwnerNames ==
  {Join(labels, <<".">>) \o dot :
     labels \in UNION {[1..n -> OwnerLabels] : n \in 1..MaxLabels},
     dot \in {<<>>, <<".">>}}

\* normalized zones
OwnerZones == {ZoneE, <<"a", ".">> \o ZoneE}

InitOwner == InitIdle(OwnerNames \X OwnerZones)

ApplyRelativeName ==
  /\ res = NoRes
  /\ res' = <<RelativeName(arg[1], arg[2])>>
  /\ UNCHANGED <<arg, storeVars>>

SpecOwner == InitOwner /\ [][ApplyRelativeName]_vars

\* C38: the owner passed to zone-set is not empty and, read relative to the
\* zone, is the fully-qualified name of the record: a name below the zone
\* loses the zone suffix, every other name is passed as it is.
C38_OwnerNamesTheRecord ==
  res # NoRes =>
    /\ res[1] # <<>>
    /\ AbsName(res[1], arg[2]) = AbsName(arg[1], arg[2])

====
